---- MODULE Spec2Model ----
(***************************************************************************)
(* Schema derivation of TenKeyLabs/prompterizer (transform.go).            *)
(*                                                                         *)
(* Text is modelled as a sequence of one-character strings, so that        *)
(* splitting, trimming, joining, replacing and pattern matching are        *)
(* computed, character by character, the way the Go code computes them.    *)
(* A reflect.Type is a record tree (k = kind); a struct type carries its   *)
(* fields; a struct tag is the record of the four keys the code reads      *)
(* with tag.Get (an absent key reads as the empty text).                   *)
(*                                                                         *)
(* The order in which a range statement visits the keys of a Go map is not *)
(* specified; hiter is the order the runtime happens to take, and any      *)
(* order of the property names may be the one.                             *)
(*                                                                         *)
(* Spec is one call of one of the functions, taken as one step.            *)
(* Interleaved is two calls of MarshalResponseSchema that go field by      *)
(* field through their record types, each step of one call between any two *)
(* steps of the other; there heap holds what the calls are given by        *)
(* reference (the record types and the Go maps of variables) and frame the *)
(* locals of each call.                                                    *)
(* Recursion is one call of MarshalResponseSchema taken call by call of    *)
(* marshalType, over record types that may name themselves; there heap is  *)
(* the table of the named types and frame the stack of activations.        *)
(***************************************************************************)
EXTENDS Integers, Sequences, FiniteSets, TLC

VARIABLES pc, op, decl, arg, ret, hiter, heap, frame

vars == <<pc, op, decl, arg, ret, hiter, heap, frame>>

-----------------------------------------------------------------------------
(* Bounds of the model *)

\* longest record type (number of declared fields) given to MarshalResponseSchema
MaxFields == 2

\* longest description, in pieces of DescPieces
MaxPieces == 3

\* longest alias / enum list given to the renderers
MaxList == 2

\* the number of activations of marshalType that fit on the stack
MaxDepth == 8

-----------------------------------------------------------------------------
(* Text helpers: strings, strings.Split, strings.TrimSpace, strings.Join,  *)
(* strings.ReplaceAll                                                      *)

RECURSIVE Flatten(_)
\* concatenation of a sequence of texts
Flatten(ss) ==
    IF ss = <<>> THEN <<>> ELSE Head(ss) \o Flatten(Tail(ss))

\* index of the first occurrence of character c in s at or after i, 0 if none
RECURSIVE IndexFrom(_, _, _)
IndexFrom(s, c, i) ==
    IF i > Len(s) THEN 0
    ELSE IF s[i] = c THEN i
    ELSE IndexFrom(s, c, i + 1)

\* strings.Split(s, ","): Split("") is one empty text
RECURSIVE Split(_)
Split(s) ==
    LET j == IndexFrom(s, ",", 1) IN
    IF j = 0 THEN <<s>>
    ELSE <<SubSeq(s, 1, j - 1)>> \o Split(SubSeq(s, j + 1, Len(s)))

IsSpace(c) == c = " "

RECURSIVE TrimLeft(_)
TrimLeft(s) ==
    IF s # <<>> /\ IsSpace(Head(s)) THEN TrimLeft(Tail(s)) ELSE s

RECURSIVE TrimRight(_)
TrimRight(s) ==
    IF s # <<>> /\ IsSpace(s[Len(s)]) THEN TrimRight(SubSeq(s, 1, Len(s) - 1)) ELSE s

\* strings.TrimSpace
TrimSpace(s) == TrimRight(TrimLeft(s))

\* strings.Join(parts, sep)
RECURSIVE Join(_, _)
Join(parts, sep) ==
    IF parts = <<>> THEN <<>>
    ELSE IF Len(parts) = 1 THEN parts[1]
    ELSE parts[1] \o sep \o Join(Tail(parts), sep)

HasPrefixAt(s, old, i) ==
    /\ i + Len(old) - 1 <= Len(s)
    /\ SubSeq(s, i, i + Len(old) - 1) = old

\* strings.ReplaceAll(s, old, new) for a non-empty old: the non-overlapping
\* occurrences of old, found left to right, are replaced
RECURSIVE ReplaceFrom(_, _, _, _)
ReplaceFrom(s, old, new, i) ==
    IF i > Len(s) THEN <<>>
    ELSE IF HasPrefixAt(s, old, i) THEN new \o ReplaceFrom(s, old, new, i + Len(old))
    ELSE <<s[i]>> \o ReplaceFrom(s, old, new, i + 1)

ReplaceAll(s, old, new) == ReplaceFrom(s, old, new, 1)

\* lo.Contains
Contains(s, x) == \E i \in 1..Len(s) : s[i] = x

\* lo.Reject(s, p == x)
RECURSIVE RejectEq(_, _)
RejectEq(s, x) ==
    IF s = <<>> THEN <<>>
    ELSE IF Head(s) = x THEN RejectEq(Tail(s), x)
    ELSE <<Head(s)>> \o RejectEq(Tail(s), x)

\* lo.Uniq: keeps the first occurrence of every element, in order
RECURSIVE Uniq(_)
Uniq(s) ==
    IF s = <<>> THEN <<>>
    ELSE LET init == Uniq(SubSeq(s, 1, Len(s) - 1)) IN
         IF Contains(init, s[Len(s)]) THEN init ELSE Append(init, s[Len(s)])

\* m[k] = v on a Go map
MapPut(m, k, v) ==
    [x \in DOMAIN m \cup {k} |-> IF x = k THEN v ELSE m[x]]

\* for k := range m: the keys of m in the order the runtime visits them
mapKeys(m) == SelectSeq(hiter, LAMBDA k : k \in DOMAIN m)

\* for k, v := range src { dst[k] = v }, from the given keys on
RECURSIVE CopyKeys(_, _, _)
CopyKeys(dst, src, keys) ==
    IF keys = <<>> THEN dst
    ELSE CopyKeys(MapPut(dst, Head(keys), src[Head(keys)]), src, Tail(keys))

\* a slip: a key that dst has already keeps its value
MapsCopy_KeepExisting(dst, src) ==
    [k \in DOMAIN dst \cup DOMAIN src |-> IF k \in DOMAIN dst THEN dst[k] ELSE src[k]]

\* maps.Copy(dst, src): every key of src is written into dst
MapsCopy(dst, src) == CopyKeys(dst, src, mapKeys(src))

-----------------------------------------------------------------------------
(* Literal texts of the source *)

T_required == <<"r","e","q","u","i","r","e","d">>
T_string   == <<"s","t","r","i","n","g">>
T_bool     == <<"b","o","o","l">>
T_number   == <<"n","u","m","b","e","r">>
T_integer  == <<"i","n","t","e","g","e","r">>
T_object   == <<"o","b","j","e","c","t">>
T_enum     == <<"e","n","u","m">>
T_float    == <<"f","l","o","a","t">>
T_also     == <<"A","l","s","o"," ","c","o","m","m","o","n","l","y"," ",
                "r","e","p","o","r","t","e","d"," ","a","s"," ">>

-----------------------------------------------------------------------------
(* parseCommaSeparated, toGenaiType, parseFieldParams *)

parseCommaSeparated(tag) ==
    IF tag = <<>> THEN <<>>
    ELSE LET parts == Split(tag) IN [i \in 1..Len(parts) |-> TrimSpace(parts[i])]

\* a slip: blanks around the token are overlooked
toGenaiType_Trimmed(promptFieldType) ==
    LET token == TrimSpace(promptFieldType) IN
    CASE token = T_string  -> [type |-> "STRING",  err |-> <<>>]
      [] token = T_bool    -> [type |-> "BOOLEAN", err |-> <<>>]
      [] token = T_number  -> [type |-> "NUMBER",  err |-> <<>>]
      [] token = T_integer -> [type |-> "INTEGER", err |-> <<>>]
      [] token = T_object  -> [type |-> "OBJECT",  err |-> <<>>]
      [] OTHER -> [type |-> "TYPE_UNSPECIFIED",
                   err |-> <<[e |-> "unsupported field type", token |-> promptFieldType]>>]

\* the result is [type, err]; err is <<>> for nil
toGenaiType(promptFieldType) ==
    CASE promptFieldType = T_string  -> [type |-> "STRING",  err |-> <<>>]
      [] promptFieldType = T_bool    -> [type |-> "BOOLEAN", err |-> <<>>]
      [] promptFieldType = T_number  -> [type |-> "NUMBER",  err |-> <<>>]
      [] promptFieldType = T_integer -> [type |-> "INTEGER", err |-> <<>>]
      [] promptFieldType = T_object  -> [type |-> "OBJECT",  err |-> <<>>]
      [] OTHER -> [type |-> "TYPE_UNSPECIFIED",
                   err |-> <<[e |-> "unsupported field type", token |-> promptFieldType]>>]

\* the *FieldParams of a nil result
NoParams == <<>>

\* a slip: the enum case is tried before the explicit format
selectFormat_EnumFirst(explicitFormat, enum, fieldType) ==
    IF Len(enum) > 0 THEN T_enum
    ELSE IF explicitFormat # <<>> THEN explicitFormat
    ELSE IF fieldType = "NUMBER" THEN T_float
    ELSE <<>>

\* the switch that sets fieldParams.Format; <<>> is the nil *string
selectFormat(explicitFormat, enum, fieldType) ==
    IF explicitFormat # <<>> THEN explicitFormat
    ELSE IF Len(enum) > 0 THEN T_enum
    ELSE IF fieldType = "NUMBER" THEN T_float
    ELSE <<>>

\* a slip: only a "required" at the end of the tag is taken out
rejectRequired_Last(promptTagParts) ==
    IF promptTagParts[Len(promptTagParts)] = T_required
    THEN SubSeq(promptTagParts, 1, Len(promptTagParts) - 1)
    ELSE promptTagParts

\* lo.Reject(promptTagParts, func(p string, _ int) bool { return p == "required" })
rejectRequired(promptTagParts) == RejectEq(promptTagParts, T_required)

\* a slip: a format is asked for as well
tooFewParts_NoFormat(promptTagParts) == Len(promptTagParts) < 3

\* len(promptTagParts) < 2
tooFewParts(promptTagParts) == Len(promptTagParts) < 2

\* the result is [params, err]: params is <<>> for nil, <<fieldParams>> otherwise
parseFieldParams(tag) ==
    LET promptTag == tag.prompt
        allParts == Split(promptTag)
        isRequired == Contains(allParts, T_required)
        promptTagParts == IF isRequired THEN rejectRequired(allParts) ELSE allParts
        fieldType == toGenaiType(promptTagParts[2])
        explicitFormat == IF Len(promptTagParts) > 2 THEN promptTagParts[3] ELSE <<>>
        enum == parseCommaSeparated(tag.prompt_enum)
        format == selectFormat(explicitFormat, enum, fieldType.type)
    IN
    IF promptTag = <<>> THEN [params |-> NoParams, err |-> <<>>]
    ELSE IF tooFewParts(promptTagParts)
         THEN [params |-> NoParams,
               err |-> <<[e |-> "missing either prompt property name or type"]>>]
    ELSE IF fieldType.err # <<>> THEN [params |-> NoParams, err |-> fieldType.err]
    ELSE [params |-> <<[Name        |-> promptTagParts[1],
                        Type        |-> fieldType.type,
                        Format      |-> format,
                        Enum        |-> enum,
                        Description |-> tag.prompt_description,
                        Aliases     |-> parseCommaSeparated(tag.prompt_aliases),
                        IsRequired  |-> isRequired]>>,
          err |-> <<>>]

-----------------------------------------------------------------------------
(* renderDescription *)

\* regexp \{([^}]+)\} FindAllStringSubmatch: the leftmost non-overlapping
\* matches from position i on, each as [text, id]
RECURSIVE FindAllTokens(_, _)
FindAllTokens(s, i) ==
    IF i > Len(s) THEN <<>>
    ELSE IF s[i] # "{" THEN FindAllTokens(s, i + 1)
    ELSE LET j == IndexFrom(s, "}", i + 1) IN
         IF j = 0 THEN <<>>
         ELSE IF j = i + 1 THEN FindAllTokens(s, i + 1)
         ELSE <<[text |-> SubSeq(s, i, j), id |-> SubSeq(s, i + 1, j - 1)]>>
              \o FindAllTokens(s, j + 1)

\* a slip: only the occurrence that was matched first is replaced
replaceMatch_FirstOnly(description, match, value) ==
    IF \E i \in 1..Len(description) : HasPrefixAt(description, match.text, i)
    THEN LET i == CHOOSE k \in 1..Len(description) :
                    /\ HasPrefixAt(description, match.text, k)
                    /\ \A j \in 1..(k - 1) : ~HasPrefixAt(description, match.text, j)
         IN SubSeq(description, 1, i - 1) \o value
            \o SubSeq(description, i + Len(match.text), Len(description))
    ELSE description

\* descriptionParts[0] = strings.ReplaceAll(descriptionParts[0], match[0], value)
replaceMatch(description, match, value) ==
    ReplaceAll(description, match.text, value)

\* the loop over the matches: [text, missing]
RECURSIVE renderMatches(_, _, _, _)
renderMatches(matches, k, variables, acc) ==
    IF k > Len(matches) THEN acc
    ELSE LET match == matches[k] IN
         IF match.id \in DOMAIN variables
         THEN renderMatches(matches, k + 1, variables,
                  [acc EXCEPT !.text = replaceMatch(acc.text, match, variables[match.id])])
         ELSE renderMatches(matches, k + 1, variables,
                  [acc EXCEPT !.missing = Append(acc.missing, match.id)])

\* a slip: the alias is quoted as written
formatAlias_Untrimmed(alias) == <<"'">> \o alias \o <<"'">>

\* fmt.Sprintf("'%s'", strings.TrimSpace(alias))
formatAlias(alias) == <<"'">> \o TrimSpace(alias) \o <<"'">>

\* lo.Map(fieldParams.Aliases, ...)
formattedAliases(aliases) == [i \in 1..Len(aliases) |-> formatAlias(aliases[i])]

\* a slip: the missing names are not reported
missingVariablesError_Nil(missingVariables) == <<>>

\* the error returned next to the description; <<>> is nil
missingVariablesError(missingVariables) ==
    IF Len(missingVariables) > 0
    THEN <<[e |-> "missing variables in description", names |-> missingVariables]>>
    ELSE <<>>

\* the result is [description, err]
renderDescription(fieldParams, variables) ==
    LET rendered == IF fieldParams.Description # <<>>
                    THEN renderMatches(FindAllTokens(fieldParams.Description, 1), 1, variables,
                                       [text |-> fieldParams.Description, missing |-> <<>>])
                    ELSE [text |-> <<>>, missing |-> <<>>]
        first == IF fieldParams.Description # <<>> THEN <<rendered.text>> ELSE <<>>
        second == IF Len(fieldParams.Aliases) > 0
                  THEN <<T_also \o Join(formattedAliases(fieldParams.Aliases), <<",", " ">>) \o <<".">> >>
                  ELSE <<>>
        description == Join(first \o second, <<" ">>)
    IN
    [description |-> description,
     err |-> missingVariablesError(rendered.missing)]

-----------------------------------------------------------------------------
(* renderEnum *)

\* a slip: a token without a mapped value is reported, as in renderDescription
renderEnum_MissingFails(fieldParams, variables) ==
    IF Len(fieldParams.Enum) # 1 THEN [enum |-> fieldParams.Enum, err |-> <<>>]
    ELSE LET enumValue == fieldParams.Enum[1]
             isToken == /\ Len(enumValue) >= 3
                        /\ enumValue[1] = "{"
                        /\ enumValue[Len(enumValue)] = "}"
             key == SubSeq(enumValue, 2, Len(enumValue) - 1)
         IN
         IF isToken /\ key \in DOMAIN variables
         THEN [enum |-> parseCommaSeparated(variables[key]), err |-> <<>>]
         ELSE IF isToken
         THEN [enum |-> <<>>, err |-> <<[e |-> "missing variables in enum", names |-> <<key>>]>>]
         ELSE [enum |-> <<enumValue>>, err |-> <<>>]

\* a slip: the value is split but its pieces are not trimmed
renderEnum_Untrimmed(fieldParams, variables) ==
    IF Len(fieldParams.Enum) # 1 THEN [enum |-> fieldParams.Enum, err |-> <<>>]
    ELSE LET enumValue == fieldParams.Enum[1]
             isToken == /\ Len(enumValue) >= 3
                        /\ enumValue[1] = "{"
                        /\ enumValue[Len(enumValue)] = "}"
             key == SubSeq(enumValue, 2, Len(enumValue) - 1)
         IN
         IF isToken /\ key \in DOMAIN variables
         THEN [enum |-> IF variables[key] = <<>> THEN <<>> ELSE Split(variables[key]),
               err |-> <<>>]
         ELSE [enum |-> <<enumValue>>, err |-> <<>>]

\* the result is [enum, err]
renderEnum(fieldParams, variables) ==
    IF Len(fieldParams.Enum) # 1 THEN [enum |-> fieldParams.Enum, err |-> <<>>]
    ELSE LET enumValue == fieldParams.Enum[1]
             isToken == /\ Len(enumValue) >= 3
                        /\ enumValue[1] = "{"
                        /\ enumValue[Len(enumValue)] = "}"
             key == SubSeq(enumValue, 2, Len(enumValue) - 1)
         IN
         IF isToken /\ key \in DOMAIN variables
         THEN [enum |-> parseCommaSeparated(variables[key]), err |-> <<>>]
         ELSE [enum |-> <<enumValue>>, err |-> <<>>]

-----------------------------------------------------------------------------
(* genai.Schema, reflect.Type *)

\* &genai.Schema{Type: type}; a nil pointer, slice or map field is <<>>,
\* a non-nil *genai.Schema or *bool is the one-element sequence of its value
Schema(type) ==
    [Type |-> type, Properties |-> <<>>, PropertyOrdering |-> <<>>, Required |-> <<>>,
     Items |-> <<>>, Nullable |-> <<>>, Description |-> <<>>, Format |-> <<>>, Enum |-> <<>>]

IntKinds == {"int", "int8", "int16", "int32", "int64",
             "uint", "uint8", "uint16", "uint32", "uint64", "uintptr"}

FloatKinds == {"float32", "float64"}

\* reflect.Type.String(), as the sequence of its lexical parts
RECURSIVE TypeString(_)
TypeString(t) ==
    CASE t.k = "ptr"    -> <<"*">> \o TypeString(t.elem)
      [] t.k = "slice"  -> <<"[]">> \o TypeString(t.elem)
      [] t.k = "array"  -> <<"[2]">> \o TypeString(t.elem)
      [] t.k = "struct" -> <<t.name>>
      [] t.k \in {"map", "chan", "func", "interface"} /\ "name" \in DOMAIN t -> <<t.name>>
      [] OTHER          -> <<t.k>>

Ok(schema) == [schema |-> <<schema>>, err |-> <<>>]

Fail(err) == [schema |-> <<>>, err |-> err]

\* fmt.Errorf("...: %w", err): the context is put in front of the chain
Wrap(context, err) == <<context>> \o err

-----------------------------------------------------------------------------
(* validateMarshaledFieldType *)

\* a slip: the Array levels are not unwrapped before the comparison
validateMarshaledFieldType_NoUnwrap(marshaledFieldSchema, promptFieldParams) ==
    IF /\ marshaledFieldSchema.Type # "TYPE_UNSPECIFIED"
       /\ marshaledFieldSchema.Type = promptFieldParams.Type
    THEN <<>>
    ELSE <<[e |-> "type mismatch for field",
            name |-> promptFieldParams.Name,
            goTypeImplies |-> marshaledFieldSchema.Type,
            promptTagSpecifies |-> promptFieldParams.Type]>>

\* a slip: every derived node is accepted
validateMarshaledFieldType_Accepting(marshaledFieldSchema, promptFieldParams) == <<>>

RECURSIVE validateMarshaledFieldType(_, _)
validateMarshaledFieldType(marshaledFieldSchema, promptFieldParams) ==
    IF marshaledFieldSchema.Type = "ARRAY"
    THEN validateMarshaledFieldType(marshaledFieldSchema.Items[1], promptFieldParams)
    ELSE IF /\ marshaledFieldSchema.Type # "TYPE_UNSPECIFIED"
            /\ marshaledFieldSchema.Type = promptFieldParams.Type
    THEN <<>>
    ELSE <<[e |-> "type mismatch for field",
            name |-> promptFieldParams.Name,
            goTypeImplies |-> marshaledFieldSchema.Type,
            promptTagSpecifies |-> promptFieldParams.Type]>>

-----------------------------------------------------------------------------
(* marshalType *)

\* a slip: the fields of a record are walked whatever kind the tag declares
descends_Always(promptType) == TRUE

\* the struct case goes on to the fields: not so if promptType != genai.TypeObject
descends(promptType) == promptType = "OBJECT"

\* a slip: a type of no supported kind is taken to be what the tag declares
unsupportedType_AsDeclared(currentType, promptType) == Ok(Schema(promptType))

\* default: return nil, fmt.Errorf("unsupported type kind for schema generation: %s (Go type: %s)", ...)
unsupportedType(currentType, promptType) ==
    Fail(<<[e |-> "unsupported type kind for schema generation",
            kind |-> currentType.k, goType |-> TypeString(currentType)]>>)

\* a slip: the embedded names are put in front of the names collected so far
appendEmbeddedOrdering_InFront(propertyOrdering, embeddedSchema) ==
    embeddedSchema.PropertyOrdering \o propertyOrdering

\* a slip: the embedded names are not entered at all
appendEmbeddedOrdering_Dropped(propertyOrdering, embeddedSchema) ==
    propertyOrdering

\* a slip: the embedded names are taken by ranging over the embedded
\* properties, a Go map, in place of the embedded propertyOrdering
appendEmbeddedOrdering_FromMap(propertyOrdering, embeddedSchema) ==
    propertyOrdering \o mapKeys(embeddedSchema.Properties)

\* propertyOrdering = append(propertyOrdering, embeddedSchema.PropertyOrdering...)
appendEmbeddedOrdering(propertyOrdering, embeddedSchema) ==
    propertyOrdering \o embeddedSchema.PropertyOrdering

\* a slip: the required names are left as collected
uniqRequired_Kept(required) == required

\* schema.Required = lo.Uniq(schema.Required), when it is not empty
uniqRequired(required) ==
    IF Len(required) > 0 THEN Uniq(required) ELSE required

\* a slip: unexported fields are walked like the others
skipUnexported_Never(field) == FALSE

\* if !field.IsExported() { continue }
skipUnexported(field) == ~field.Exported

\* a slip: the object built so far is returned next to the error
embeddedFailure_Partial(schema, field, err) ==
    [schema |-> <<schema>>,
     err |-> Wrap([e |-> "error marshaling embedded field", field |-> field.Name], err)]

\* return nil, fmt.Errorf("error marshaling embedded field %s: %w", field.Name, err)
embeddedFailure(schema, field, err) ==
    Fail(Wrap([e |-> "error marshaling embedded field", field |-> field.Name], err))

\* a slip: the node derived from a pointer is returned as it is
setNullable_Unset(schema) == schema

\* schema.Nullable = lo.ToPtr(true)
setNullable(schema) == [schema EXCEPT !.Nullable = <<TRUE>>]

RECURSIVE marshalType(_, _, _)
RECURSIVE marshalFields(_, _, _, _, _)

\* the loop body left by return: the result of marshalType
Return(result) == [returned |-> TRUE, result |-> result]

\* the loop body left at its end or by continue: the locals of the loop
Continue(schema, propertyOrdering) ==
    [returned |-> FALSE, schema |-> schema, propertyOrdering |-> propertyOrdering]

\* a slip: the description, format and enum are written on the items node as well
describedField_OnItems(fieldParams, marshaled, schema, propertyOrdering, rendered) ==
    IF rendered.err # <<>>
    THEN Return(Fail(Wrap([e |-> "error rendering description for", name |-> fieldParams.Name],
                          rendered.err)))
    ELSE Continue([schema EXCEPT !.Properties = MapPut(schema.Properties, fieldParams.Name,
                                    [marshaled.schema[1] EXCEPT
                                        !.Description = rendered.description,
                                        !.Format = fieldParams.Format,
                                        !.Enum = fieldParams.Enum,
                                        !.Items = IF @ = <<>> THEN @
                                                  ELSE <<[@[1] EXCEPT
                                                            !.Description = rendered.description,
                                                            !.Format = fieldParams.Format,
                                                            !.Enum = fieldParams.Enum]>>]),
                            !.Required = IF fieldParams.IsRequired
                                         THEN Append(schema.Required, fieldParams.Name)
                                         ELSE schema.Required],
             Append(propertyOrdering, fieldParams.Name))

\* the end of the loop body: the description is rendered, the property entered
describedField(fieldParams, marshaled, schema, propertyOrdering, rendered) ==
    IF rendered.err # <<>>
    THEN Return(Fail(Wrap([e |-> "error rendering description for", name |-> fieldParams.Name],
                          rendered.err)))
    ELSE Continue([schema EXCEPT !.Properties = MapPut(schema.Properties, fieldParams.Name,
                                    [marshaled.schema[1] EXCEPT !.Description = rendered.description,
                                                   !.Format = fieldParams.Format,
                                                   !.Enum = fieldParams.Enum]),
                            !.Required = IF fieldParams.IsRequired
                                         THEN Append(schema.Required, fieldParams.Name)
                                         ELSE schema.Required],
             Append(propertyOrdering, fieldParams.Name))

\* the loop body once the marshaled type is checked against the annotation
validatedField(fieldParams, descriptionVars, marshaled, schema, propertyOrdering, invalid) ==
    IF invalid # <<>>
    THEN Return(Fail(invalid))
    ELSE describedField(fieldParams, marshaled, schema, propertyOrdering,
                        renderDescription(fieldParams, descriptionVars))

\* a slip: the description is rendered before the kind is checked
marshaledField_DescriptionFirst(field, fieldParams, descriptionVars, schema, propertyOrdering, marshaled) ==
    IF marshaled.err # <<>>
    THEN Return(Fail(Wrap([e |-> "error marshaling property", name |-> fieldParams.Name,
                           goField |-> field.Name, goType |-> TypeString(field.Type)],
                          marshaled.err)))
    ELSE IF renderDescription(fieldParams, descriptionVars).err # <<>>
    THEN Return(Fail(Wrap([e |-> "error rendering description for", name |-> fieldParams.Name],
                          renderDescription(fieldParams, descriptionVars).err)))
    ELSE validatedField(fieldParams, descriptionVars, marshaled, schema, propertyOrdering,
                        validateMarshaledFieldType(marshaled.schema[1], fieldParams))

\* the loop body once the type of the field is marshaled
marshaledField(field, fieldParams, descriptionVars, schema, propertyOrdering, marshaled) ==
    IF marshaled.err # <<>>
    THEN Return(Fail(Wrap([e |-> "error marshaling property", name |-> fieldParams.Name,
                           goField |-> field.Name, goType |-> TypeString(field.Type)],
                          marshaled.err)))
    ELSE validatedField(fieldParams, descriptionVars, marshaled, schema, propertyOrdering,
                        validateMarshaledFieldType(marshaled.schema[1], fieldParams))

\* the loop body of a named field once its tags are parsed
parsedField(field, descriptionVars, schema, propertyOrdering, parsed) ==
    IF parsed.err # <<>>
    THEN Return(Fail(Wrap([e |-> "failed to parse field params for", field |-> field.Name],
                          parsed.err)))
    ELSE IF parsed.params = NoParams
    THEN Continue(schema, propertyOrdering)
    ELSE marshaledField(field, parsed.params[1], descriptionVars, schema, propertyOrdering,
                        marshalType(field.Type, parsed.params[1].Type, descriptionVars))

\* the loop body of an embedded field once its type is marshaled
embeddedField(field, schema, propertyOrdering, embedded) ==
         IF embedded.err # <<>>
         THEN Return(embeddedFailure(schema, field, embedded.err))
         ELSE Continue([schema EXCEPT !.Properties = MapsCopy(schema.Properties, embedded.schema[1].Properties),
                                      !.Required = schema.Required \o embedded.schema[1].Required],
                       appendEmbeddedOrdering(propertyOrdering, embedded.schema[1]))

\* the body of the loop over the fields of a struct, for one field
marshalField(field, descriptionVars, schema, propertyOrdering) ==
    IF skipUnexported(field)
    THEN Continue(schema, propertyOrdering)
    ELSE IF field.Anonymous
    THEN embeddedField(field, schema, propertyOrdering, marshalType(field.Type, "OBJECT", descriptionVars))
    ELSE parsedField(field, descriptionVars, schema, propertyOrdering, parseFieldParams(field.Tag))

\* the code after the loop
finishStruct(schema, propertyOrdering) ==
    Ok([schema EXCEPT !.Required = uniqRequired(schema.Required),
                      !.PropertyOrdering = propertyOrdering])

\* the loop over the fields of a struct, from field i on, and the code after it
marshalFields(fields, i, descriptionVars, schema, propertyOrdering) ==
    IF i > Len(fields)
    THEN finishStruct(schema, propertyOrdering)
    ELSE LET body == marshalField(fields[i], descriptionVars, schema, propertyOrdering) IN
         IF body.returned THEN body.result
         ELSE marshalFields(fields, i + 1, descriptionVars, body.schema, body.propertyOrdering)

marshalType(currentType, promptType, descriptionVars) ==
    CASE currentType.k = "ptr" ->
            LET inner == marshalType(currentType.elem, promptType, descriptionVars) IN
            IF inner.err # <<>> THEN Fail(inner.err)
            ELSE Ok(setNullable(inner.schema[1]))
      [] currentType.k = "struct" ->
            IF ~descends(promptType) THEN Ok(Schema(promptType))
            ELSE marshalFields(currentType.fields, 1, descriptionVars, Schema("OBJECT"), <<>>)
      [] currentType.k \in {"slice", "array"} ->
            LET items == marshalType(currentType.elem, promptType, descriptionVars) IN
            IF items.err # <<>>
            THEN Fail(Wrap([e |-> "error marshaling array/slice items of type",
                            goType |-> TypeString(currentType.elem)], items.err))
            ELSE Ok([Schema("ARRAY") EXCEPT !.Items = items.schema])
      [] currentType.k = "string" -> Ok(Schema("STRING"))
      [] currentType.k = "bool" -> Ok(Schema("BOOLEAN"))
      [] currentType.k \in IntKinds -> Ok(Schema("INTEGER"))
      [] currentType.k \in FloatKinds -> Ok(Schema("NUMBER"))
      [] OTHER -> unsupportedType(currentType, promptType)

-----------------------------------------------------------------------------
(* MarshalResponseSchema *)

\* a slip: the pointer is not unwrapped before the kind is looked at
MarshalResponseSchema_NoUnwrap(v, descriptionVars) ==
    IF v = <<>>
    THEN Fail(<<[e |-> "input value for schema generation cannot be nil"]>>)
    ELSE IF v[1].k # "struct"
         THEN Fail(<<[e |-> "input value for schema generation must be a struct, got",
                      kind |-> v[1].k]>>)
         ELSE marshalType(v[1], "OBJECT", descriptionVars)

\* the checks in front of the walk: the error, <<>> if the input passes
checkInput(v) ==
    IF v = <<>>
    THEN <<[e |-> "input value for schema generation cannot be nil"]>>
    ELSE LET vType == IF v[1].k = "ptr" THEN v[1].elem ELSE v[1] IN
         IF vType.k # "struct"
         THEN <<[e |-> "input value for schema generation must be a struct, got",
                 kind |-> vType.k]>>
         ELSE <<>>

\* a slip: the walk is given the type that the pointer was unwrapped to
MarshalResponseSchema_Unwrapped(v, descriptionVars) ==
    IF v = <<>> THEN Fail(<<[e |-> "input value for schema generation cannot be nil"]>>)
    ELSE IF (IF v[1].k = "ptr" THEN v[1].elem ELSE v[1]).k # "struct"
    THEN Fail(<<[e |-> "input value for schema generation must be a struct, got",
                 kind |-> (IF v[1].k = "ptr" THEN v[1].elem ELSE v[1]).k]>>)
    ELSE marshalType(IF v[1].k = "ptr" THEN v[1].elem ELSE v[1], "OBJECT", descriptionVars)

\* v is <<>> for a nil interface value and <<type>> for a value of that type
MarshalResponseSchema(v, descriptionVars) ==
    IF checkInput(v) # <<>>
    THEN Fail(checkInput(v))
    ELSE marshalType(v[1], "OBJECT", descriptionVars)

\* a slip: a variable that was looked up for the description is taken out
descriptionVarsAfter_Consumed(field, descriptionVars) ==
    LET used == { m.id : m \in { FindAllTokens(field.Tag.prompt_description, 1)[i] :
                                 i \in 1..Len(FindAllTokens(field.Tag.prompt_description, 1)) } }
    IN [k \in DOMAIN descriptionVars \ used |-> descriptionVars[k]]

\* the map of variables after the body of the loop has run for a field: the
\* code reads it (value, ok := variables[match[1]]) and never assigns to it
descriptionVarsAfter(field, descriptionVars) == descriptionVars

-----------------------------------------------------------------------------
(* The revision that renders enums (src/unnamed/part_000): its loop body    *)
(* calls renderEnum after renderDescription, it keeps no propertyOrdering,  *)
(* and its parameter is named templateVariables. parseFieldParams,          *)
(* renderDescription and validateMarshaledFieldType are the same text in    *)
(* both revisions.                                                          *)

RECURSIVE marshalTypeTemplated(_, _, _)
RECURSIVE marshalFieldsTemplated(_, _, _, _)

\* a slip: the automatic format is taken back when the rendered list is empty
templatedFormat_Revised(fieldParams, enum) ==
    IF enum = <<>> /\ fieldParams.Format = T_enum THEN <<>>
    ELSE fieldParams.Format

\* fieldSchema.Format = lo.FromPtr(fieldParams.Format)
templatedFormat(fieldParams, enum) == fieldParams.Format

\* the end of the loop body: the enum is rendered, the property entered
enumeratedField(fieldParams, marshaled, schema, description, rendered) ==
    IF rendered.err # <<>>
    THEN Return(Fail(Wrap([e |-> "error rendering enum for", name |-> fieldParams.Name],
                          rendered.err)))
    ELSE Continue([schema EXCEPT !.Properties = MapPut(schema.Properties, fieldParams.Name,
                                    [marshaled.schema[1] EXCEPT !.Description = description,
                                                   !.Enum = rendered.enum,
                                                   !.Format = templatedFormat(fieldParams, rendered.enum)]),
                            !.Required = IF fieldParams.IsRequired
                                         THEN Append(schema.Required, fieldParams.Name)
                                         ELSE schema.Required],
             <<>>)

\* the loop body once the description is rendered
describedFieldTemplated(fieldParams, templateVariables, marshaled, schema, rendered) ==
    IF rendered.err # <<>>
    THEN Return(Fail(Wrap([e |-> "error rendering description for", name |-> fieldParams.Name],
                          rendered.err)))
    ELSE enumeratedField(fieldParams, marshaled, schema, rendered.description,
                         renderEnum(fieldParams, templateVariables))

\* the loop body once the type of the field is marshaled
marshaledFieldTemplated(field, fieldParams, templateVariables, schema, marshaled) ==
    IF marshaled.err # <<>>
    THEN Return(Fail(Wrap([e |-> "error marshaling property", name |-> fieldParams.Name,
                           goField |-> field.Name, goType |-> TypeString(field.Type)],
                          marshaled.err)))
    ELSE IF validateMarshaledFieldType(marshaled.schema[1], fieldParams) # <<>>
    THEN Return(Fail(validateMarshaledFieldType(marshaled.schema[1], fieldParams)))
    ELSE describedFieldTemplated(fieldParams, templateVariables, marshaled, schema,
                                 renderDescription(fieldParams, templateVariables))

\* the loop body of a named field once its tags are parsed
parsedFieldTemplated(field, templateVariables, schema, parsed) ==
    IF parsed.err # <<>>
    THEN Return(Fail(Wrap([e |-> "failed to parse field params for", field |-> field.Name],
                          parsed.err)))
    ELSE IF parsed.params = NoParams
    THEN Continue(schema, <<>>)
    ELSE marshaledFieldTemplated(field, parsed.params[1], templateVariables, schema,
                                 marshalTypeTemplated(field.Type, parsed.params[1].Type, templateVariables))

\* the loop body of an embedded field once its type is marshaled
embeddedFieldTemplated(field, schema, embedded) ==
    IF embedded.err # <<>>
    THEN Return(embeddedFailure(schema, field, embedded.err))
    ELSE Continue([schema EXCEPT !.Properties = MapsCopy(schema.Properties, embedded.schema[1].Properties),
                                 !.Required = schema.Required \o embedded.schema[1].Required],
                  <<>>)

\* the body of the loop over the fields of a struct, for one field
marshalFieldTemplated(field, templateVariables, schema) ==
    IF skipUnexported(field)
    THEN Continue(schema, <<>>)
    ELSE IF field.Anonymous
    THEN embeddedFieldTemplated(field, schema, marshalTypeTemplated(field.Type, "OBJECT", templateVariables))
    ELSE parsedFieldTemplated(field, templateVariables, schema, parseFieldParams(field.Tag))

\* the loop over the fields of a struct, from field i on, and the code after it
marshalFieldsTemplated(fields, i, templateVariables, schema) ==
    IF i > Len(fields)
    THEN Ok([schema EXCEPT !.Required = uniqRequired(schema.Required)])
    ELSE LET body == marshalFieldTemplated(fields[i], templateVariables, schema) IN
         IF body.returned THEN body.result
         ELSE marshalFieldsTemplated(fields, i + 1, templateVariables, body.schema)

marshalTypeTemplated(currentType, promptType, templateVariables) ==
    CASE currentType.k = "ptr" ->
            LET inner == marshalTypeTemplated(currentType.elem, promptType, templateVariables) IN
            IF inner.err # <<>> THEN Fail(inner.err)
            ELSE Ok(setNullable(inner.schema[1]))
      [] currentType.k = "struct" ->
            IF promptType # "OBJECT" THEN Ok(Schema(promptType))
            ELSE marshalFieldsTemplated(currentType.fields, 1, templateVariables, Schema("OBJECT"))
      [] currentType.k \in {"slice", "array"} ->
            LET items == marshalTypeTemplated(currentType.elem, promptType, templateVariables) IN
            IF items.err # <<>>
            THEN Fail(Wrap([e |-> "error marshaling array/slice items of type",
                            goType |-> TypeString(currentType.elem)], items.err))
            ELSE Ok([Schema("ARRAY") EXCEPT !.Items = items.schema])
      [] currentType.k = "string" -> Ok(Schema("STRING"))
      [] currentType.k = "bool" -> Ok(Schema("BOOLEAN"))
      [] currentType.k \in IntKinds -> Ok(Schema("INTEGER"))
      [] currentType.k \in FloatKinds -> Ok(Schema("NUMBER"))
      [] OTHER -> Fail(<<[e |-> "unsupported type kind for schema generation",
                         kind |-> currentType.k, goType |-> TypeString(currentType)]>>)

\* MarshalResponseSchema of that revision
MarshalResponseSchemaTemplated(v, templateVariables) ==
    IF checkInput(v) # <<>>
    THEN Fail(checkInput(v))
    ELSE marshalTypeTemplated(v[1], "OBJECT", templateVariables)

-----------------------------------------------------------------------------
(* GenerateGeminiParts *)

\* genai.NewPartFromText(text)
NewPartFromText(text) == [Text |-> text, InlineData |-> <<>>]

\* genai.NewPartFromBytes(data, mimeType)
NewPartFromBytes(data, mimeType) ==
    [Text |-> <<>>, InlineData |-> <<[Data |-> data, MIMEType |-> mimeType]>>]

RECURSIVE Itoa(_)
\* %d of a number that is not negative
Itoa(n) ==
    LET digit == <<"0", "1", "2", "3", "4", "5", "6", "7", "8", "9">>[(n % 10) + 1] IN
    IF n < 10 THEN <<digit>> ELSE Itoa(n \div 10) \o <<digit>>

\* fmt.Sprintf("--- %s\n\n", fileCategory)
CategoryHeader(fileCategory) == <<"-", "-", "-", " ">> \o fileCategory \o <<"\n", "\n">>

\* "\n\n---\n\n"
CategoryFooter == <<"\n", "\n", "-", "-", "-", "\n", "\n">>

\* fmt.Sprintf("------ (Page %d)\n\n", page.PageNumber)
PageHeader(pageNumber) ==
    <<"-", "-", "-", "-", "-", "-", " ", "(", "P", "a", "g", "e", " ">> \o Itoa(pageNumber)
    \o <<")", "\n", "\n">>

\* "\n\n------\n\n"
PageFooter == <<"\n", "\n", "-", "-", "-", "-", "-", "-", "\n", "\n">>

IsEmpty(fc) ==
    fc.FileContent = <<>> /\ Len(fc.PaginatedFileContents) = 0
    /\ Len(fc.BinaryFileContent.FileBytes) = 0

generateFileContentParts(fileContent, fileCategory) ==
    IF fileCategory # <<>> /\ fileContent # <<>>
    THEN <<NewPartFromText(CategoryHeader(fileCategory)),
           NewPartFromText(fileContent),
           NewPartFromText(CategoryFooter)>>
    ELSE <<>>

RECURSIVE pageParts(_)
\* the parts of the pages, in the order of the pages
pageParts(paginatedFileContents) ==
    IF paginatedFileContents = <<>> THEN <<>>
    ELSE LET page == Head(paginatedFileContents) IN
         <<NewPartFromText(PageHeader(page.PageNumber)),
           NewPartFromText(page.PageContent),
           NewPartFromText(PageFooter)>> \o pageParts(Tail(paginatedFileContents))

generatePaginatedFileContentParts(paginatedFileContents, fileCategory) ==
    <<NewPartFromText(CategoryHeader(fileCategory))>>
    \o pageParts(paginatedFileContents)
    \o <<NewPartFromText(CategoryFooter)>>

generateFileBytesParts(binaryFile, fileCategory) ==
    <<NewPartFromText(CategoryHeader(fileCategory)),
      NewPartFromBytes(binaryFile.FileBytes, binaryFile.FileMimeType),
      NewPartFromText(CategoryFooter)>>

\* the parts and the error of generateFileContextParts
generateFileContextParts(fileContext) ==
    IF fileContext.FileCategory = <<>>
    THEN [parts |-> <<>>, err |-> <<[e |-> "fileCategory is required"]>>]
    ELSE CASE fileContext.FileContent # <<>> ->
                [parts |-> generateFileContentParts(fileContext.FileContent, fileContext.FileCategory),
                 err |-> <<>>]
           [] fileContext.FileContent = <<>> /\ Len(fileContext.PaginatedFileContents) > 0 ->
                [parts |-> generatePaginatedFileContentParts(fileContext.PaginatedFileContents,
                                                             fileContext.FileCategory),
                 err |-> <<>>]
           [] fileContext.FileContent = <<>> /\ Len(fileContext.PaginatedFileContents) = 0
              /\ Len(fileContext.BinaryFileContent.FileBytes) > 0 ->
                [parts |-> generateFileBytesParts(fileContext.BinaryFileContent,
                                                  fileContext.FileCategory),
                 err |-> <<>>]
           [] OTHER -> [parts |-> <<>>, err |-> <<[e |-> "file content not specified"]>>]

\* the parts of a list of texts, one part for each text
textParts(texts) == [i \in 1..Len(texts) |-> NewPartFromText(texts[i])]

\* the four results of GenerateGeminiParts; a nil *genai.Content is <<>>
GeminiParts(systemInstruction, promptParts, responseSchema, err) ==
    [systemInstruction |-> systemInstruction, parts |-> promptParts,
     schema |-> responseSchema, err |-> err]

\* the end of GenerateGeminiParts: the prompts, then the schema
withSchema(params, fileParts, marshaled) ==
    IF marshaled.err # <<>>
    THEN GeminiParts(<<>>, <<>>, <<Schema("")>>, marshaled.err)
    ELSE GeminiParts(IF params.SystemInstructions = <<>> THEN <<>>
                     ELSE <<[Parts |-> textParts(params.SystemInstructions)]>>,
                     fileParts \o textParts(params.Prompt),
                     marshaled.schema, <<>>)

\* GenerateGeminiParts once the file context is turned into parts
withFileParts(params, fileContextParts) ==
    IF fileContextParts.err # <<>>
    THEN GeminiParts(<<>>, <<>>, <<>>, fileContextParts.err)
    ELSE withSchema(params, fileContextParts.parts,
                    MarshalResponseSchema(params.ResponseStruct, params.TemplateVariables))

GenerateGeminiParts(params) ==
    IF ~IsEmpty(params.FileContext)
    THEN withFileParts(params, generateFileContextParts(params.FileContext))
    ELSE withFileParts(params, [parts |-> <<>>, err |-> <<>>])

-----------------------------------------------------------------------------
(* Record-type declarations given to the program.                          *)
(* A declaration is what the Go source of a struct field says: the field   *)
(* name, its type, and the parts its tags are written from. The program    *)
(* sees only the reflect.StructField built from it by StructField, where   *)
(* the prompt tag is one text that parseFieldParams has to split again.    *)

Txt_a == <<"a">>
Txt_b == <<"b">>
Txt_c == <<"c">>

\* parts with the text "required" put in at position at (0: not at all)
InsertRequired(parts, at) ==
    IF at = 0 THEN parts
    ELSE SubSeq(parts, 1, at - 1) \o <<T_required>> \o SubSeq(parts, at, Len(parts))

\* Name Type `prompt:"<parts, required at reqAt>" prompt_enum:".." prompt_description:".." prompt_aliases:".."`
Tagged(goName, type, parts, reqAt, enumTag, descTag, aliasTag) ==
    [goName |-> goName, exported |-> TRUE, anonymous |-> FALSE, type |-> type, tagged |-> TRUE,
     parts |-> parts, reqAt |-> reqAt, enumTag |-> enumTag, descTag |-> descTag, aliasTag |-> aliasTag]

\* Name Type `prompt:"name,kind"`
Plain(goName, type, name, kind) == Tagged(goName, type, <<name, kind>>, 0, <<>>, <<>>, <<>>)

\* Name Type   (no prompt tag)
Untagged(goName, type) ==
    [Plain(goName, type, <<>>, <<>>) EXCEPT !.tagged = FALSE, !.parts = <<>>]

\* name Type `...`   (a lower-case field name)
Unexported(d) == [d EXCEPT !.exported = FALSE]

\* Type   (an embedded field, named after its type)
Embedded(goName, type) == [Untagged(goName, type) EXCEPT !.anonymous = TRUE]

Prim(k) == [k |-> k]

PtrTo(t) == [k |-> "ptr", elem |-> t]

SliceOf(t) == [k |-> "slice", elem |-> t]

ArrayOf(t) == [k |-> "array", elem |-> t]

StructOf(name, decls) == [k |-> "struct", name |-> name, decls |-> decls]

\* a type of a kind that has no fields and no elements to walk, as it is written
Opaque(k, name) == [k |-> k, name |-> name]

RECURSIVE TypeOf(_)
RECURSIVE StructFields(_)

\* the reflect.StructField values of a declaration list
StructFields(decls) ==
    [i \in 1..Len(decls) |->
        [Name      |-> decls[i].goName,
         Exported  |-> decls[i].exported,
         Anonymous |-> decls[i].anonymous,
         Type      |-> TypeOf(decls[i].type),
         Tag       |-> [prompt |-> IF decls[i].tagged
                                   THEN Join(InsertRequired(decls[i].parts, decls[i].reqAt), <<",">>)
                                   ELSE <<>>,
                        prompt_enum        |-> decls[i].enumTag,
                        prompt_description |-> decls[i].descTag,
                        prompt_aliases     |-> decls[i].aliasTag]]]

\* the reflect.Type of a declared type
TypeOf(t) ==
    CASE t.k = "struct" -> [k |-> "struct", name |-> t.name, fields |-> StructFields(t.decls)]
      [] t.k \in {"ptr", "slice", "array"} -> [k |-> t.k, elem |-> TypeOf(t.elem)]
      [] OTHER -> t

\* type Event struct { Name string `prompt:"a,string" prompt_description:"x"` }
Event == StructOf("Event", <<Tagged("Name", Prim("string"), <<Txt_a, T_string>>, 0, <<>>, <<"x">>, <<>>)>>)

\* type Base struct {
\*     BaseField1 string `prompt:"a,string,required"`
\*     NoTag      string
\*     hidden     string `prompt:"c"`
\*     BaseField2 int    `prompt:"b,integer"` }
Base == StructOf("Base", <<Tagged("BaseField1", Prim("string"), <<Txt_a, T_string>>, 3, <<>>, <<>>, <<>>),
                           Untagged("NoTag", Prim("string")),
                           Unexported(Tagged("hidden", Prim("string"), <<Txt_c>>, 0, <<>>, <<>>, <<>>)),
                           Plain("BaseField2", Prim("int"), Txt_b, T_integer)>>)

\* type Dup struct {
\*     X string `prompt:"a,string,required"`
\*     Y []int  `prompt:"required,a,integer"` }
Dup == StructOf("Dup", <<Tagged("X", Prim("string"), <<Txt_a, T_string>>, 3, <<>>, <<>>, <<>>),
                         Tagged("Y", SliceOf(Prim("int")), <<Txt_a, T_integer>>, 1, <<>>, <<>>, <<>>)>>)

\* type Inner struct { V []string `prompt:"c,number"` }
Inner == StructOf("Inner", <<Plain("V", SliceOf(Prim("string")), Txt_c, T_number)>>)

\* type Bad struct { W map[string]string `prompt:"a,string"` }
Bad == StructOf("Bad", <<Plain("W", Prim("map"), Txt_a, T_string)>>)

\* type Time struct { wall uint64; ext int64 }   (time.Time)
Time == StructOf("Time", <<Unexported(Untagged("wall", Prim("uint64"))),
                           Unexported(Untagged("ext", Prim("int64")))>>)

\* the field declarations a record type is written from
FieldPool ==
    { Plain("A", Prim("string"), Txt_a, T_string),
      Tagged("B", Prim("string"), <<Txt_a, T_string>>, 1, <<>>, <<"{","a","}">>, <<>>),
      Tagged("C", Prim("int"), <<Txt_b, T_integer, <<"d">> >>, 0, <<"1", ",", " ", "2">>, <<>>, <<>>),
      Plain("D", Prim("float64"), Txt_c, T_number),
      Tagged("E", Prim("string"), <<Txt_b, T_string, <<>> >>, 0, <<"p">>, <<>>, <<>>),
      Plain("G", Prim("string"), Txt_a, T_integer),
      Tagged("H", SliceOf(SliceOf(Prim("string"))), <<Txt_b, T_string>>, 2, <<>>, <<>>, <<>>),
      Plain("I", SliceOf(ArrayOf(Prim("int"))), Txt_b, T_string),
      Plain("J", PtrTo(Event), Txt_c, T_object),
      Plain("K", SliceOf(PtrTo(Event)), Txt_c, T_object),
      Tagged("L", Time, <<Txt_a, T_string, <<"d">> >>, 4, <<>>, <<>>, <<>>),
      Tagged("O", Prim("bool"), <<Txt_c, T_bool>>, 0, <<>>, <<"x", "{", "b", "}">>, <<" ", "p", ",", "q">>),
      Plain("P", PtrTo(SliceOf(Prim("string"))), Txt_c, T_string),
      Plain("Q", SliceOf(Inner), Txt_b, T_object),
      Plain("S", Dup, Txt_b, T_object),
      Unexported(Plain("m", Prim("string"), Txt_b, T_string)),
      Untagged("N", Prim("string")),
      Embedded("Base", Base),
      Embedded("Dup", PtrTo(Dup)),
      Tagged("M", Prim("string"), <<Txt_a>>, 2, <<>>, <<>>, <<>>),
      Plain("R", Prim("bool"), Txt_a, <<"b", "o", "o", "l", "e", "a", "n">>),
      Plain("W", Prim("map"), Txt_a, T_string),
      Plain("U", PtrTo(Bad), Txt_b, T_object),
      Unexported(Tagged("u", Prim("int"), <<Txt_c>>, 0, <<>>, <<"{", "c", "}">>, <<>>)),
      Embedded("Inner", Inner),
      Unexported(Embedded("base", Base)) }

\* type Odd struct { M string `prompt:"a"` }
Odd == StructOf("Odd", <<Tagged("M", Prim("string"), <<Txt_a>>, 0, <<>>, <<>>, <<>>)>>)

\* the kind tokens that toGenaiType knows
Kinds == {T_string, T_bool, T_number, T_integer, T_object}

\* complex64, map[string]string, chan int, func(), interface {}
UnsupportedTypes ==
    { Prim("complex64"), Opaque("map", "map[string]string"), Opaque("chan", "chan int"),
      Opaque("func", "func()"), Opaque("interface", "interface {}") }

\* X t, X []*t and X *[2]t, each annotated `prompt:"b,<kind>"`
UnsupportedFields ==
    { Plain("X", t, Txt_b, kind) : t \in UnsupportedTypes, kind \in Kinds }
    \cup { Plain("X", SliceOf(PtrTo(t)), Txt_b, kind) : t \in UnsupportedTypes, kind \in Kinds }
    \cup { Plain("X", PtrTo(ArrayOf(t)), Txt_b, kind) : t \in UnsupportedTypes, kind \in Kinds }

\* type T struct { X .. } and type T struct { A string `prompt:"a,string"`; X .. }
UnsupportedDecls ==
    { <<x>> : x \in UnsupportedFields }
    \cup { <<Plain("A", Prim("string"), Txt_a, T_string), x>> : x \in UnsupportedFields }

\* the records that fields are declared as leaves of
LeafRecords == { Time, Bad, Inner, Odd, Event }

\* Z r, Z []*r and Z *[2]r, each annotated `prompt:"b,<kind>"`, kind not object
LeafRecordFields ==
    { Plain("Z", r, Txt_b, kind) : r \in LeafRecords, kind \in Kinds \ {T_object} }
    \cup { Plain("Z", SliceOf(PtrTo(r)), Txt_b, kind) : r \in LeafRecords, kind \in Kinds \ {T_object} }
    \cup { Plain("Z", PtrTo(ArrayOf(r)), Txt_b, kind) : r \in LeafRecords, kind \in Kinds \ {T_object} }

\* type T struct { Z .. } and type T struct { A string `prompt:"a,string"`; Z .. }
LeafRecordDecls ==
    { <<z>> : z \in LeafRecordFields }
    \cup { <<Plain("A", Prim("string"), Txt_a, T_string), z>> : z \in LeafRecordFields }

\* fields that fail more than one check:
\*   Y string `prompt:"b,integer" prompt_description:"{c}"`
\*   Y map[string]string `prompt:"b"`
\*   Y map[string]string `prompt:"b,string" prompt_description:"{c}"`
\*   Y string `prompt:"b,array" prompt_description:"{c}"`
\*   Y *Bad `prompt:"b,object" prompt_description:"{c}"`
\*   Y []Odd `prompt:"required,b,object" prompt_description:"{c}"`
\*   Y *int `prompt:"b,number" prompt_description:"{c}"`
TwiceFaultyFields ==
    { Tagged("Y", Prim("string"), <<Txt_b, T_integer>>, 0, <<>>, <<"{", "c", "}">>, <<>>),
      Tagged("Y", Opaque("map", "map[string]string"), <<Txt_b>>, 0, <<>>, <<>>, <<>>),
      Tagged("Y", Opaque("map", "map[string]string"), <<Txt_b, T_string>>, 0, <<>>, <<"{", "c", "}">>, <<>>),
      Tagged("Y", Prim("string"), <<Txt_b, <<"a", "r", "r", "a", "y">> >>, 0, <<>>, <<"{", "c", "}">>, <<>>),
      Tagged("Y", PtrTo(Bad), <<Txt_b, T_object>>, 0, <<>>, <<"{", "c", "}">>, <<>>),
      Tagged("Y", SliceOf(Odd), <<Txt_b, T_object>>, 1, <<>>, <<"{", "c", "}">>, <<>>),
      Tagged("Y", PtrTo(Prim("int")), <<Txt_b, T_number>>, 0, <<>>, <<"{", "c", "}">>, <<>>) }

\* type T struct { Y .. } and type T struct { Y ..; Y2 .. }
TwiceFaultyDecls ==
    { <<y>> : y \in TwiceFaultyFields }
    \cup { <<y, [z EXCEPT !.goName = "Y2"]>> : y \in TwiceFaultyFields, z \in TwiceFaultyFields }

\* array fields with a description, a format, an enum:
\*   V [][]string `prompt:"c,string,d" prompt_enum:"p, q" prompt_description:"x{a}" prompt_aliases:"p"`
\*   V []*Event   `prompt:"c,object" prompt_description:"x"`
\*   V *[2]string `prompt:"c,string" prompt_enum:"p"`
\*   V [2][]Event `prompt:"required,c,object,d" prompt_description:"{a}"`
\*   V []float64  `prompt:"c,number" prompt_aliases:"p,q"`
AnnotatedArrayFields ==
    { Tagged("V", SliceOf(SliceOf(Prim("string"))), <<Txt_c, T_string, <<"d">> >>, 0,
             <<"p", ",", " ", "q">>, <<"x", "{", "a", "}">>, <<"p">>),
      Tagged("V", SliceOf(PtrTo(Event)), <<Txt_c, T_object>>, 0, <<>>, <<"x">>, <<>>),
      Tagged("V", PtrTo(ArrayOf(Prim("string"))), <<Txt_c, T_string>>, 0, <<"p">>, <<>>, <<>>),
      Tagged("V", ArrayOf(SliceOf(Event)), <<Txt_c, T_object, <<"d">> >>, 1, <<>>, <<"{", "a", "}">>, <<>>),
      Tagged("V", SliceOf(Prim("float64")), <<Txt_c, T_number>>, 0, <<>>, <<>>, <<"p", ",", "q">>) }

\* type T struct { V .. } and type T struct { A string `prompt:"a,string"`; V .. }
AnnotatedArrayDecls ==
    { <<v>> : v \in AnnotatedArrayFields }
    \cup { <<Plain("A", Prim("string"), Txt_a, T_string), v>> : v \in AnnotatedArrayFields }

\* the record types written for one case each, whatever the bounds
CaseDecls == UnsupportedDecls \cup LeafRecordDecls \cup TwiceFaultyDecls \cup AnnotatedArrayDecls

RECURSIVE SeqsUpTo(_, _)
\* the sequences of at most n elements of S
SeqsUpTo(S, n) ==
    IF n = 0 THEN {<<>>}
    ELSE LET shorter == SeqsUpTo(S, n - 1) IN
         shorter \cup {Append(q, x) : q \in {r \in shorter : Len(r) = n - 1}, x \in S}

\* the record types: type T struct { <at most MaxFields declarations of the pool> }
RecordDecls == SeqsUpTo(FieldPool, MaxFields)

\* the orders a range statement may visit the property names in: the maps
\* that are ranged over (the properties of an embedded record) have two keys
\* at most, and every order of two names is part of one of these
KeyOrders == { <<Txt_a, Txt_b, Txt_c>>, <<Txt_c, Txt_b, Txt_a>> }

\* the variable mappings given to MarshalResponseSchema
SchemaVars ==
    { <<>>,
      (Txt_a :> <<"v">>),
      (Txt_a :> <<"{", "b", "}">>) @@ (Txt_b :> <<"w">>) }

\* the pieces a description given to renderDescription is written from:
\* plain text, the tokens {a} and {b}, and an opening brace on its own
DescPieces == { <<"x">>, <<"{", "a", "}">>, <<"{", "b", "}">>, <<"{">> }

\* alias and enum entries as written in a tag: the entry and the blanks around it
Entries ==
    { [core |-> <<"p">>, text |-> <<"p">>],
      [core |-> <<"q">>, text |-> <<" ", "q", " ">>],
      [core |-> <<"{", "a", "}">>, text |-> <<"{", "a", "}", " ">>] }

AliasEntries == {x \in Entries : x.core # <<"{", "a", "}">>}

\* the entries of a list as written, and as meant
EntryTexts(xs) == [i \in 1..Len(xs) |-> xs[i].text]

EntryCores(xs) == [i \in 1..Len(xs) |-> xs[i].core]

\* the inputs of renderDescription: a description, an alias list, a mapping
RenderDecls ==
    { [pieces |-> ps, aliases |-> al] :
        ps \in SeqsUpTo(DescPieces, MaxPieces), al \in SeqsUpTo(AliasEntries, MaxList) }

RenderVars ==
    { <<>>,
      (Txt_a :> <<"v">>),
      (Txt_b :> <<"w">>),
      (Txt_a :> <<"v">>) @@ (Txt_b :> <<"w">>),
      (Txt_a :> <<>>) @@ (Txt_b :> <<"w">>),
      (Txt_a :> <<"{", "b", "}">>),
      (Txt_a :> <<"{", "b", "}">>) @@ (Txt_b :> <<"w">>) }

\* the raw enum entries given to renderEnum
EnumEntries == { <<"{", "a", "}">>, <<"p">>, <<"{", "a", "}", "x">>, <<"{", "}">> }

\* the inputs of renderEnum: a raw enum list, and the mapping written as the
\* entries that each value lists, separated by commas (no entry: the empty value)
EnumDecls ==
    { [enum |-> en, values |-> vs] :
        en \in SeqsUpTo(EnumEntries, MaxList),
        vs \in {<<>>, (Txt_b :> << [core |-> <<"p">>, text |-> <<"p">>] >>)}
               \cup {(Txt_a :> items) : items \in SeqsUpTo(Entries, MaxList)} }

\* the mapping a declaration of values stands for
ValuesOf(values) ==
    [k \in DOMAIN values |-> Join(EntryTexts(values[k]), <<",">>)]

\* the inputs of parseFieldParams: one field declaration
KindTokens ==
    { T_string, T_bool, T_number, T_integer, T_object,
      <<"b","o","o","l","e","a","n">>, <<"a","r","r","a","y">>, <<>>,
      <<"S","t","r","i","n","g">>, <<" ","s","t","r","i","n","g">> }

ParseDecls ==
    { Tagged("F", Prim("string"), <<Txt_a>> \o rest, reqAt, enumTag, <<>>, <<>>) :
        rest \in {<<>>} \cup { <<kind>> \o extra :
                                 kind \in KindTokens,
                                 extra \in { <<>>, << <<>> >>, << <<"d">> >>, << <<"d">>, <<"e">> >> } },
        reqAt \in 0..4,
        enumTag \in { <<>>, <<"p">>, <<" ">>, <<"p", ",", " ", "q">> } }
    \cup { Tagged("F", Prim("string"), <<>>, reqAt, <<>>, <<>>, <<>>) : reqAt \in 0..1 }

\* the enum tags written on the fields given to the revision that renders enums
TemplatedEnumTags ==
    { <<>>,
      <<"{", "a", "}">>,
      <<" ", "{", "a", "}", " ">>,
      <<"p">>,
      <<"p", ",", " ", "{", "a", "}">> }

\* type N struct { H string `prompt:"a,string" prompt_enum:"{a}"` }
Nested == StructOf("N", <<Tagged("H", Prim("string"), <<Txt_a, T_string>>, 0, <<"{", "a", "}">>, <<>>, <<>>)>>)

\* F <type> `prompt:"a,string[,d][,required]" prompt_enum:".." prompt_description:".."`
TemplatedFields ==
    { Tagged("F", type, <<Txt_a, T_string>> \o extra, reqAt, enumTag, descTag, <<>>) :
        type \in { Prim("string"), SliceOf(Prim("string")), PtrTo(Prim("string")), Prim("int") },
        extra \in { <<>>, << <<"d">> >> },
        reqAt \in {0, 3},
        enumTag \in TemplatedEnumTags,
        descTag \in { <<>>, <<"{", "b", "}">> } }

\* the declarations that may follow F in the record type
TemplatedAfter ==
    { <<>>,
      << Plain("G", Prim("float64"), Txt_b, T_number) >>,
      << Plain("G", Nested, Txt_b, T_object) >>,
      << Unexported(Plain("g", Prim("string"), Txt_b, T_string)) >>,
      << Untagged("G", Prim("string")), Plain("M", Opaque("map", "map[string]int"), Txt_b, T_string) >> }

\* the record types given to it: F, with the embedded Base in front or not
TemplatedDecls ==
    { before \o <<f>> \o after :
        before \in { <<>>, <<Embedded("Base", Base)>> },
        f \in TemplatedFields,
        after \in TemplatedAfter }

\* the mappings given to it: a value that is empty, blank, one entry, two
\* entries with blanks, the token itself; no value for a
TemplateVariables ==
    { <<>>,
      (Txt_a :> <<>>),
      (Txt_a :> <<" ">>),
      (Txt_a :> <<"p">>) @@ (Txt_b :> <<"w">>),
      (Txt_a :> <<"p", ",", " ", "q", " ">>),
      (Txt_a :> <<"{", "a", "}">>),
      (Txt_b :> <<"p">>) }

\* the texts given as system instructions and as prompts
PromptTexts == { <<"p">>, <<"q">> }

\* the pages of a paginated file
Pages == { <<>>,
           <<[PageNumber |-> 1, PageContent |-> <<"t">>]>>,
           <<[PageNumber |-> 12, PageContent |-> <<"t">>], [PageNumber |-> 3, PageContent |-> <<>>]>> }

\* the file contexts: a category or none, and any of the three contents
FileContexts ==
    [FileCategory : {<<>>, <<"c">>},
     BinaryFileContent : [FileBytes : {<<>>, <<7>>}, FileMimeType : {<<>>, <<"m">>}],
     FileContent : {<<>>, <<"t">>},
     PaginatedFileContents : Pages]

\* the response records: nil, the ResponseStruct of the tests, a type mismatch
ResponseStructs ==
    { <<>>,
      <<TypeOf(StructOf("ResponseStruct",
                        <<Tagged("Value", Prim("string"), <<Txt_a, T_string>>, 0, <<>>, <<"x">>, <<>>)>>))>>,
      <<TypeOf(StructOf("TypeMismatch", <<Plain("Field", Prim("string"), Txt_a, T_integer)>>))>> }

-----------------------------------------------------------------------------
(* The calls *)

NoRet == [err |-> <<>>]

InitMarshalResponseSchema ==
    /\ op = "MarshalResponseSchema"
    /\ decl \in RecordDecls \cup CaseDecls
    \* the only range over a map is the maps.Copy of an embedded field
    /\ hiter \in IF \E i \in 1..Len(decl) : decl[i].anonymous
                THEN KeyOrders ELSE {<<Txt_a, Txt_b, Txt_c>>}
    /\ \E byPointer \in BOOLEAN, descriptionVars \in SchemaVars :
          arg = [v |-> <<IF byPointer THEN TypeOf(PtrTo(StructOf("T", decl)))
                         ELSE TypeOf(StructOf("T", decl))>>,
                 vars |-> descriptionVars]

\* the inputs that are no record and no pointer to a record:
\* nil, "", 0, new(string), a **T and a []T (T with fields that fail and do not)
OtherInputs ==
    { <<>>,
      <<Prim("string")>>,
      <<Prim("int")>>,
      <<PtrTo(Prim("string"))>>,
      <<TypeOf(PtrTo(PtrTo(StructOf("T", <<Plain("G", Prim("string"), Txt_a, T_integer)>>))))>>,
      <<TypeOf(SliceOf(StructOf("T", <<Plain("A", Prim("string"), Txt_a, T_string)>>)))>> }

\* no record type is walked for them
InitMarshalOther ==
    /\ op = "MarshalResponseSchema"
    /\ decl = <<>>
    /\ hiter = <<Txt_a, Txt_b, Txt_c>>
    /\ \E v \in OtherInputs, descriptionVars \in SchemaVars :
          arg = [v |-> v, vars |-> descriptionVars]

InitRenderDescription ==
    /\ op = "renderDescription"
    /\ hiter = <<Txt_a, Txt_b, Txt_c>>
    /\ decl \in RenderDecls
    /\ \E variables \in RenderVars :
          arg = [fieldParams |-> [Description |-> Flatten(decl.pieces),
                                  Aliases |-> EntryTexts(decl.aliases)],
                 vars |-> variables]

InitRenderEnum ==
    /\ op = "renderEnum"
    /\ hiter = <<Txt_a, Txt_b, Txt_c>>
    /\ decl \in EnumDecls
    /\ arg = [fieldParams |-> [Enum |-> decl.enum], vars |-> ValuesOf(decl.values)]

InitParseFieldParams ==
    /\ op = "parseFieldParams"
    /\ hiter = <<Txt_a, Txt_b, Txt_c>>
    /\ \E d \in ParseDecls, again \in BOOLEAN :
          /\ d.reqAt <= Len(d.parts) + 1
          /\ again => d.reqAt # 0
          /\ decl = <<d>>
          \* a tag may say "required" more than once: here, once more at its end
          /\ arg = [tag |-> [StructFields(decl)[1].Tag EXCEPT
                                !.prompt = IF again THEN @ \o <<",">> \o T_required ELSE @]]

InitMarshalResponseSchemaTemplated ==
    /\ op = "MarshalResponseSchemaTemplated"
    /\ decl \in TemplatedDecls
    /\ hiter \in IF \E i \in 1..Len(decl) : decl[i].anonymous
                THEN KeyOrders ELSE {<<Txt_a, Txt_b, Txt_c>>}
    /\ \E templateVariables \in TemplateVariables :
          arg = [v |-> <<TypeOf(StructOf("T", decl))>>, vars |-> templateVariables]

InitGenerateGeminiParts ==
    /\ op = "GenerateGeminiParts"
    /\ hiter = <<Txt_a, Txt_b, Txt_c>>
    /\ decl = <<>>
    /\ \E si \in SeqsUpTo(PromptTexts, 1), prompt \in SeqsUpTo(PromptTexts, 2),
          fc \in FileContexts, rs \in ResponseStructs :
          arg = [params |-> [SystemInstructions |-> si, Prompt |-> prompt, FileContext |-> fc,
                             ResponseStruct |-> rs, TemplateVariables |-> <<>>]]

Init ==
    /\ pc = "ready"
    /\ ret = NoRet
    /\ heap = <<>>
    /\ frame = <<>>
    /\ \/ InitMarshalResponseSchema
       \/ InitMarshalOther
       \/ InitRenderDescription
       \/ InitRenderEnum
       \/ InitParseFieldParams
       \/ InitGenerateGeminiParts
       \/ InitMarshalResponseSchemaTemplated

\* schema, err := MarshalResponseSchema(v, descriptionVars)
CallMarshalResponseSchema ==
    /\ pc = "ready"
    /\ op = "MarshalResponseSchema"
    /\ ret' = MarshalResponseSchema(arg.v, arg.vars)
    /\ pc' = "done"
    /\ UNCHANGED <<op, decl, arg, hiter, heap, frame>>

\* description, err := renderDescription(fieldParams, variables)
CallRenderDescription ==
    /\ pc = "ready"
    /\ op = "renderDescription"
    /\ ret' = renderDescription(arg.fieldParams, arg.vars)
    /\ pc' = "done"
    /\ UNCHANGED <<op, decl, arg, hiter, heap, frame>>

\* enum, err := renderEnum(fieldParams, variables)
CallRenderEnum ==
    /\ pc = "ready"
    /\ op = "renderEnum"
    /\ ret' = renderEnum(arg.fieldParams, arg.vars)
    /\ pc' = "done"
    /\ UNCHANGED <<op, decl, arg, hiter, heap, frame>>

\* fieldParams, err := parseFieldParams(tag)
CallParseFieldParams ==
    /\ pc = "ready"
    /\ op = "parseFieldParams"
    /\ ret' = parseFieldParams(arg.tag)
    /\ pc' = "done"
    /\ UNCHANGED <<op, decl, arg, hiter, heap, frame>>

\* systemInstruction, promptParts, responseSchema, err := GenerateGeminiParts(params)
CallGenerateGeminiParts ==
    /\ pc = "ready"
    /\ op = "GenerateGeminiParts"
    /\ ret' = GenerateGeminiParts(arg.params)
    /\ pc' = "done"
    /\ UNCHANGED <<op, decl, arg, hiter, heap, frame>>

\* schema, err := MarshalResponseSchema(v, templateVariables), in the revision that renders enums
CallMarshalResponseSchemaTemplated ==
    /\ pc = "ready"
    /\ op = "MarshalResponseSchemaTemplated"
    /\ ret' = MarshalResponseSchemaTemplated(arg.v, arg.vars)
    /\ pc' = "done"
    /\ UNCHANGED <<op, decl, arg, hiter, heap, frame>>

Next ==
    \/ CallMarshalResponseSchema
    \/ CallRenderDescription
    \/ CallRenderEnum
    \/ CallParseFieldParams
    \/ CallGenerateGeminiParts
    \/ CallMarshalResponseSchemaTemplated

Spec == Init /\ [][Next]_vars

-----------------------------------------------------------------------------
(* Two calls of MarshalResponseSchema, step by step *)

Calls == {1, 2}

\* the record types the two calls are given
\* type T struct { B string `prompt:"required,a,string" prompt_description:"{a}"`; Base }
\* type T struct { *Dup; O bool `prompt:"c,bool" prompt_description:"x{b}" prompt_aliases:" p,q"` }
\* type T struct { A string `prompt:"a,string"`; G string `prompt:"a,integer"` }
\* type T struct { K []*Event `prompt:"c,object"`; B string `prompt:"b,string" prompt_description:"{a}"` }
SharedTypes ==
    { << Tagged("B", Prim("string"), <<Txt_a, T_string>>, 1, <<>>, <<"{","a","}">>, <<>>),
         Embedded("Base", Base) >>,
      << Embedded("Dup", PtrTo(Dup)),
         Tagged("O", Prim("bool"), <<Txt_c, T_bool>>, 0, <<>>, <<"x", "{", "b", "}">>, <<" ", "p", ",", "q">>) >>,
      << Plain("A", Prim("string"), Txt_a, T_string),
         Plain("G", Prim("string"), Txt_a, T_integer) >>,
      << Plain("K", SliceOf(PtrTo(Event)), Txt_c, T_object),
         Tagged("B", Prim("string"), <<Txt_b, T_string>>, 0, <<>>, <<"{","a","}">>, <<>>) >> }

\* no locals: the call is not in the loop
NoFrame == <<>>

\* the value a call is given: a T or a *T, T the record type under its reference
InputOf(types, a) ==
    <<IF a.byPointer THEN TypeOf(PtrTo(StructOf("T", types[a.t])))
      ELSE TypeOf(StructOf("T", types[a.t]))>>

\* the struct type that the loop of a call goes through
StructOfInput(v) == IF v[1].k = "ptr" THEN v[1].elem ELSE v[1]

\* the first call is given the first record type and the first map; the second
\* call the same or the other record type, and the same or the other map
InitInterleaved ==
    /\ op = "interleaved"
    /\ decl \in [types : [1..2 -> SharedTypes], maps : [1..2 -> SchemaVars]]
    /\ heap = decl
    /\ arg \in [Calls -> [t : 1..2, m : 1..2, byPointer : BOOLEAN]]
    /\ arg[1].t = 1 /\ arg[1].m = 1
    /\ pc = [c \in Calls |-> "ready"]
    /\ frame = [c \in Calls |-> NoFrame]
    /\ ret = [c \in Calls |-> NoRet]
    /\ hiter \in KeyOrders

\* MarshalResponseSchema up to the loop of marshalType: the checks, the
\* pointer case, and the new object of the struct case
Enter(c) ==
    /\ pc[c] = "ready"
    /\ LET v == InputOf(heap.types, arg[c]) IN
       IF checkInput(v) # <<>>
       THEN /\ ret' = [ret EXCEPT ![c] = Fail(checkInput(v))]
            /\ pc' = [pc EXCEPT ![c] = "done"]
            /\ frame' = frame
       ELSE /\ frame' = [frame EXCEPT ![c] = [i |-> 1, schema |-> Schema("OBJECT"),
                                              propertyOrdering |-> <<>>]]
            /\ pc' = [pc EXCEPT ![c] = "walking"]
            /\ ret' = ret
    /\ hiter' \in KeyOrders
    /\ UNCHANGED <<op, decl, arg, heap>>

\* one turn of the loop: the body for field i, which reads the record type
\* and the map of variables as they are at this moment
Field(c) ==
    /\ pc[c] = "walking"
    /\ LET v == InputOf(heap.types, arg[c])
           fields == StructOfInput(v).fields
           i == frame[c].i
       IN /\ i <= Len(fields)
          /\ LET descriptionVars == heap.maps[arg[c].m]
                 body == marshalField(fields[i], descriptionVars,
                                      frame[c].schema, frame[c].propertyOrdering)
             IN /\ IF body.returned
                   THEN /\ ret' = [ret EXCEPT ![c] = body.result]
                        /\ pc' = [pc EXCEPT ![c] = "done"]
                        /\ frame' = [frame EXCEPT ![c] = NoFrame]
                   ELSE /\ frame' = [frame EXCEPT ![c] = [i |-> i + 1, schema |-> body.schema,
                                                          propertyOrdering |-> body.propertyOrdering]]
                        /\ UNCHANGED <<ret, pc>>
                /\ heap' = [heap EXCEPT !.maps[arg[c].m] =
                                           descriptionVarsAfter(fields[i], descriptionVars)]
    /\ hiter' \in KeyOrders
    /\ UNCHANGED <<op, decl, arg>>

\* the code after the loop, and the return through the pointer case
Leave(c) ==
    /\ pc[c] = "walking"
    /\ LET v == InputOf(heap.types, arg[c])
           struct == finishStruct(frame[c].schema, frame[c].propertyOrdering)
       IN /\ frame[c].i > Len(StructOfInput(v).fields)
          /\ ret' = [ret EXCEPT ![c] = IF v[1].k = "ptr"
                                       THEN Ok(setNullable(struct.schema[1]))
                                       ELSE struct]
    /\ pc' = [pc EXCEPT ![c] = "done"]
    /\ frame' = [frame EXCEPT ![c] = NoFrame]
    /\ hiter' \in KeyOrders
    /\ UNCHANGED <<op, decl, arg, heap>>

NextInterleaved == \E c \in Calls : Enter(c) \/ Field(c) \/ Leave(c)

Interleaved == InitInterleaved /\ [][NextInterleaved]_vars

-----------------------------------------------------------------------------
(* The walk of marshalType, call by call, over named record types.          *)
(* A Go record type may name itself behind a pointer or a slice, so its     *)
(* descriptor cannot be written out as a tree: here a struct type is its    *)
(* name, heap is the table of the reflect.StructField values of each named  *)
(* type, and frame is the stack of the activations of marshalType. The Go   *)
(* runtime ends the program with "fatal error: stack overflow" when the     *)
(* stack of a goroutine passes its limit; MaxDepth stands for that limit.   *)

\* a record type of the table, as a declaration names it
Named(name) == [k |-> "named", name |-> name]

RECURSIVE Descriptor(_)
\* the reflect.Type of a declared type; of a named record type, its name
Descriptor(t) ==
    CASE t.k = "named" -> [k |-> "struct", name |-> t.name]
      [] t.k \in {"ptr", "slice", "array"} -> [k |-> t.k, elem |-> Descriptor(t.elem)]
      [] OTHER -> t

\* the reflect.StructField values of a named record type
TableFields(decls) ==
    [i \in 1..Len(decls) |-> [StructFields(decls)[i] EXCEPT !.Type = Descriptor(decls[i].type)]]

\* the fields that type T struct { .. } is declared with
TFieldPool ==
    { Plain("A", Prim("string"), Txt_a, T_integer),
      Plain("Next", PtrTo(Named("T")), Txt_b, T_object),
      Plain("Next", PtrTo(Named("T")), Txt_b, T_string),
      Embedded("T", PtrTo(Named("T"))),
      Embedded("U", Named("U")),
      Plain("U", Named("U"), Txt_c, T_object) }

\* the fields that type U struct { .. } is declared with
UFieldPool ==
    { Plain("C", Prim("int"), Txt_c, T_integer),
      Plain("T", PtrTo(Named("T")), Txt_a, T_object),
      Plain("Up", SliceOf(Named("U")), Txt_a, T_object) }

\* the type definitions given to the program: T, and U that T may name
TypeTables ==
    { ("T" :> t) @@ ("U" :> u) : t \in SeqsUpTo(TFieldPool, MaxFields), u \in SeqsUpTo(UFieldPool, 1) }

\* parseFieldParams on the tags that the fields of the pools are written
\* with: a pure function, computed once for each tag
ParsedTags ==
    [tag \in { StructFields(<<d>>)[1].Tag : d \in TFieldPool \cup UFieldPool } |->
        parseFieldParams(tag)]

\* a new activation of marshalType(currentType, promptType, descriptionVars):
\* i, schema and propertyOrdering are the locals of the struct case, parsed is
\* what parseFieldParams has returned for field i (fieldParams, err), got is
\* what the call that the activation is waiting for has returned
NewFrame(currentType, promptType) ==
    [currentType |-> currentType, promptType |-> promptType, i |-> 1,
     schema |-> Schema("OBJECT"), propertyOrdering |-> <<>>, parsed |-> <<>>, got |-> <<>>]

\* currentType.Field(i), for i in 1..currentType.NumField()
fieldsOf(currentType) == heap[currentType.name]

\* the activation is in the loop of the struct case
inLoop(f) ==
    /\ f.currentType.k = "struct"
    /\ descends(f.promptType)
    /\ f.i <= Len(fieldsOf(f.currentType))

\* the loop body has come to its call of parseFieldParams
atParse(f) ==
    /\ inLoop(f)
    /\ f.parsed = <<>>
    /\ ~skipUnexported(fieldsOf(f.currentType)[f.i])
    /\ ~fieldsOf(f.currentType)[f.i].Anonymous

\* the call of marshalType in the loop body for the field, none if the body
\* leaves before it
fieldCall(f, field) ==
    IF skipUnexported(field) THEN <<>>
    ELSE IF field.Anonymous THEN <<[type |-> field.Type, promptType |-> "OBJECT"]>>
    ELSE IF f.parsed[1].err # <<>> \/ f.parsed[1].params = NoParams THEN <<>>
    ELSE <<[type |-> field.Type, promptType |-> f.parsed[1].params[1].Type]>>

\* the call of marshalType that the activation makes next, none if it makes none
pendingCall(f) ==
    IF f.got # <<>> THEN <<>>
    ELSE IF f.currentType.k \in {"ptr", "slice", "array"}
    THEN <<[type |-> f.currentType.elem, promptType |-> f.promptType]>>
    ELSE IF inLoop(f) /\ ~atParse(f) THEN fieldCall(f, fieldsOf(f.currentType)[f.i])
    ELSE <<>>

\* the loop body for the field, the call it makes (if any) having returned
fieldBody(f, field, descriptionVars) ==
    IF skipUnexported(field) THEN Continue(f.schema, f.propertyOrdering)
    ELSE IF field.Anonymous
    THEN embeddedField(field, f.schema, f.propertyOrdering, f.got[1])
    ELSE IF f.got = <<>>
    THEN parsedField(field, descriptionVars, f.schema, f.propertyOrdering, f.parsed[1])
    ELSE marshaledField(field, f.parsed[1].params[1], descriptionVars,
                        f.schema, f.propertyOrdering, f.got[1])

\* what the activation returns once it is out of the loop and has the result
\* of its call: the pointer case, the slice case, the code after the loop,
\* and the cases that make no call
frameResult(f, descriptionVars) ==
    CASE f.currentType.k = "ptr" ->
            IF f.got[1].err # <<>> THEN Fail(f.got[1].err)
            ELSE Ok(setNullable(f.got[1].schema[1]))
      [] f.currentType.k \in {"slice", "array"} ->
            IF f.got[1].err # <<>>
            THEN Fail(Wrap([e |-> "error marshaling array/slice items of type",
                            goType |-> TypeString(f.currentType.elem)], f.got[1].err))
            ELSE Ok([Schema("ARRAY") EXCEPT !.Items = f.got[1].schema])
      [] f.currentType.k = "struct" /\ descends(f.promptType) ->
            finishStruct(f.schema, f.propertyOrdering)
      [] OTHER -> marshalType(f.currentType, f.promptType, descriptionVars)

\* the activation on top of the stack
Top == frame[Len(frame)]

InitRecursion ==
    /\ op = "MarshalResponseSchema, call by call"
    /\ decl \in TypeTables
    /\ heap = [n \in DOMAIN decl |-> TableFields(decl[n])]
    /\ \E byPointer \in BOOLEAN :
          arg = [v |-> <<Descriptor(IF byPointer THEN PtrTo(Named("T")) ELSE Named("T"))>>,
                 vars |-> <<>>]
    /\ pc = "ready"
    /\ frame = <<>>
    /\ ret = NoRet
    \* the only range over a map is the maps.Copy of an embedded field
    /\ hiter \in IF \E i \in 1..Len(decl["T"]) : decl["T"][i].anonymous
                THEN KeyOrders ELSE {<<Txt_a, Txt_b, Txt_c>>}

\* MarshalResponseSchema up to its call of marshalType
Begin ==
    /\ pc = "ready"
    /\ IF checkInput(arg.v) # <<>>
       THEN /\ ret' = Fail(checkInput(arg.v))
            /\ pc' = "done"
            /\ frame' = frame
       ELSE /\ frame' = <<NewFrame(arg.v[1], "OBJECT")>>
            /\ pc' = "walking"
            /\ ret' = ret
    /\ UNCHANGED <<op, decl, arg, heap, hiter>>

\* fieldParams, err := parseFieldParams(field.Tag), in the loop body
Parse ==
    /\ pc = "walking"
    /\ atParse(Top)
    /\ frame' = [frame EXCEPT ![Len(frame)].parsed =
                     <<ParsedTags[fieldsOf(Top.currentType)[Top.i].Tag]>>]
    /\ UNCHANGED <<pc, op, decl, arg, ret, hiter, heap>>

\* the activation on top calls marshalType
Descend ==
    /\ pc = "walking"
    /\ pendingCall(Top) # <<>>
    /\ Len(frame) < MaxDepth
    /\ frame' = Append(frame, NewFrame(pendingCall(Top)[1].type, pendingCall(Top)[1].promptType))
    /\ UNCHANGED <<pc, op, decl, arg, ret, hiter, heap>>

\* the call does not fit on the stack: the runtime ends the program
Overflow ==
    /\ pc = "walking"
    /\ pendingCall(Top) # <<>>
    /\ Len(frame) = MaxDepth
    /\ pc' = "fatal"
    /\ frame' = <<>>
    /\ UNCHANGED <<op, decl, arg, ret, hiter, heap>>

\* result is returned by the activation on top: to its caller, or to the
\* caller of MarshalResponseSchema
Deliver(result) ==
    IF Len(frame) = 1
    THEN /\ ret' = result
         /\ pc' = "done"
         /\ frame' = <<>>
    ELSE /\ frame' = [SubSeq(frame, 1, Len(frame) - 1) EXCEPT ![Len(frame) - 1].got = <<result>>]
         /\ UNCHANGED <<ret, pc>>

\* the rest of one turn of the loop of the struct case, from where the call
\* of marshalType in the body (if it makes one) has returned
Iterate ==
    /\ pc = "walking"
    /\ inLoop(Top)
    /\ ~atParse(Top)
    /\ pendingCall(Top) = <<>>
    /\ LET field == fieldsOf(Top.currentType)[Top.i]
           body == fieldBody(Top, field, arg.vars)
       IN /\ IF body.returned
             THEN Deliver(body.result)
             ELSE /\ frame' = [frame EXCEPT ![Len(frame)] =
                                  [@ EXCEPT !.i = @ + 1, !.schema = body.schema,
                                            !.propertyOrdering = body.propertyOrdering,
                                            !.parsed = <<>>, !.got = <<>>]]
                  /\ UNCHANGED <<ret, pc>>
          \* maps.Copy ranges over the embedded properties
          /\ IF field.Anonymous /\ field.Exported THEN hiter' \in KeyOrders ELSE hiter' = hiter
    /\ UNCHANGED <<op, decl, arg, heap>>

\* the activation on top returns: the pointer case and the slice case after
\* their call, the struct case after the loop, the other cases at once
Finish ==
    /\ pc = "walking"
    /\ ~inLoop(Top)
    /\ pendingCall(Top) = <<>>
    /\ Deliver(frameResult(Top, arg.vars))
    /\ UNCHANGED <<op, decl, arg, heap, hiter>>

NextRecursion == Begin \/ Parse \/ Descend \/ Overflow \/ Iterate \/ Finish

\* the call runs on one goroutine and waits for nothing: it takes its next
\* step as long as it has one
Recursion == InitRecursion /\ [][NextRecursion]_vars /\ WF_vars(NextRecursion)

\* the call has returned
Returned(name) == pc = "done" /\ op = name

-----------------------------------------------------------------------------
(* What a declaration says, read off the declaration itself *)

DeclName(d) == d.parts[1]

DeclKind(d) == d.parts[2]

DeclRequired(d) == d.reqAt # 0

RECURSIVE StripPointers(_)
StripPointers(t) == IF t.k = "ptr" THEN StripPointers(t.elem) ELSE t

RECURSIVE StripContainers(_)
StripContainers(t) ==
    IF t.k \in {"ptr", "slice", "array"} THEN StripContainers(t.elem) ELSE t

\* the declarations of the record behind a declared type, none if it is no record
RecordDeclsOf(t) == IF t.k = "struct" THEN t.decls ELSE <<>>

\* the annotated exported fields that contribute to one object, in declaration
\* order, an embedded record standing for its own contributing fields
RECURSIVE Contributing(_)
Contributing(decls) ==
    IF decls = <<>> THEN <<>>
    ELSE LET d == Head(decls) IN
         (IF ~d.exported THEN <<>>
          ELSE IF d.anonymous THEN Contributing(RecordDeclsOf(StripPointers(d.type)))
          ELSE IF d.tagged THEN <<d>>
          ELSE <<>>) \o Contributing(Tail(decls))

DeclaredOrder(decls) ==
    LET c == Contributing(decls) IN [i \in 1..Len(c) |-> DeclName(c[i])]

\* the number of annotated exported fields, those of embedded records included
RECURSIVE CountAnnotated(_)
CountAnnotated(decls) ==
    IF decls = <<>> THEN 0
    ELSE LET d == Head(decls) IN
         CountAnnotated(Tail(decls)) +
         (CASE ~d.exported -> 0
            [] d.exported /\ d.anonymous -> CountAnnotated(RecordDeclsOf(StripPointers(d.type)))
            [] OTHER -> IF d.tagged THEN 1 ELSE 0)

\* the contributing field that is declared last under a name
LastDeclared(decls, name) ==
    LET c == Contributing(decls)
        i == CHOOSE k \in 1..Len(c) :
                /\ DeclName(c[k]) = name
                /\ \A m \in (k + 1)..Len(c) : DeclName(c[m]) # name
    IN c[i]

Range(q) == {q[i] : i \in 1..Len(q)}

NoDuplicates(q) == \A i, j \in 1..Len(q) : q[i] = q[j] => i = j

RECURSIVE Innermost(_)
\* the node under all the Array levels of a node
Innermost(node) == IF node.Type = "ARRAY" THEN Innermost(node.Items[1]) ELSE node

\* all the nodes of a tree
RECURSIVE Nodes(_)
Nodes(node) ==
    {node}
    \cup UNION {Nodes(node.Properties[k]) : k \in DOMAIN node.Properties}
    \cup UNION {Nodes(node.Items[i]) : i \in 1..Len(node.Items)}

ObjectNodes(node) == {n \in Nodes(node) : n.Type = "OBJECT"}

\* the Object nodes of a tree, each with the declarations of the record it was
\* derived from: the root, and under every property the record of the field
\* that was declared last under that name
RECURSIVE ObjectPairs(_, _)
ObjectPairs(decls, node) ==
    {[decls |-> decls, node |-> node]}
    \cup UNION { LET child == Innermost(node.Properties[k]) IN
                 IF child.Type = "OBJECT"
                 THEN ObjectPairs(RecordDeclsOf(StripContainers(LastDeclared(decls, k).type)), child)
                 ELSE {} : k \in DOMAIN node.Properties }

Succeeded == Returned("MarshalResponseSchema") /\ ret.err = <<>>

Root == ret.schema[1]

-----------------------------------------------------------------------------
(* C1: whenever MarshalResponseSchema succeeds, the root's propertyOrdering *)
(* is the sequence of the declared names of the annotated exported fields   *)
(* in declaration order, an embedded record contributing its own ordering   *)
(* where it is declared; it has as many entries as there are annotated      *)
(* fields, those reached through embedding included.                        *)
C1_RootOrderingIsDeclarationOrder ==
    Succeeded =>
        /\ Root.PropertyOrdering = DeclaredOrder(decl)
        /\ Len(Root.PropertyOrdering) = CountAnnotated(decl)

\* an own field is declared before an embedded record of two fields
C1_Witness ==
    /\ Succeeded
    /\ Len(decl) = 2
    /\ ~decl[1].anonymous /\ decl[1].tagged /\ decl[1].exported
    /\ decl[2].anonymous
    /\ Len(Root.PropertyOrdering) = 3

-----------------------------------------------------------------------------
(* C2, as claimed: in every tree returned, every Object node's              *)
(* propertyOrdering has no duplicate and exactly one entry per key of       *)
(* properties, also when two fields declare the same property name.         *)
C2_AsClaimed ==
    Succeeded =>
        \A n \in ObjectNodes(Root) :
            /\ NoDuplicates(n.PropertyOrdering)
            /\ Range(n.PropertyOrdering) = DOMAIN n.Properties
            /\ Len(n.PropertyOrdering) = Cardinality(DOMAIN n.Properties)

(* C2, amended: in every tree returned, the entries of every Object node's  *)
(* propertyOrdering are, as a set, the keys of its properties; and when no  *)
(* two fields contributing to that node (its own or those of embedded       *)
(* records) declare the same property name, propertyOrdering has no         *)
(* duplicate and exactly one entry per key. A name declared by several      *)
(* contributing fields is entered once per declaring field.                 *)
C2_OrderingMatchesProperties ==
    Succeeded =>
        /\ {p.node : p \in ObjectPairs(decl, Root)} = ObjectNodes(Root)
        /\ \A p \in ObjectPairs(decl, Root) :
              /\ Range(p.node.PropertyOrdering) = DOMAIN p.node.Properties
              /\ NoDuplicates(DeclaredOrder(p.decls)) =>
                    /\ NoDuplicates(p.node.PropertyOrdering)
                    /\ Len(p.node.PropertyOrdering) = Cardinality(DOMAIN p.node.Properties)
              /\ ~NoDuplicates(DeclaredOrder(p.decls)) =>
                    Len(p.node.PropertyOrdering) > Cardinality(DOMAIN p.node.Properties)

\* an embedded record and an own field, all of different names
C2_Witness ==
    /\ Succeeded
    /\ \E i \in 1..Len(decl) : decl[i].anonymous
    /\ \E i \in 1..Len(decl) : ~decl[i].anonymous /\ decl[i].tagged /\ decl[i].exported
    /\ NoDuplicates(DeclaredOrder(decl))
    /\ Cardinality(DOMAIN Root.Properties) = 3

-----------------------------------------------------------------------------
(* C3: in every tree returned, every Object node's required list has no     *)
(* duplicates and each of its entries is a key of the node's properties,    *)
(* the names spliced in from embedded records and the names declared        *)
(* required more than once included.                                        *)
C3_RequiredIsDuplicateFreeSubset ==
    Succeeded =>
        \A n \in ObjectNodes(Root) :
            /\ NoDuplicates(n.Required)
            /\ Range(n.Required) \subseteq DOMAIN n.Properties

\* a name is required by an embedded record and again by an own field
C3_Witness ==
    /\ Succeeded
    /\ \E i, j \in 1..Len(decl) :
          /\ decl[i].anonymous /\ decl[i].exported
          /\ \E k \in 1..Len(Contributing(<<decl[i]>>)) :
                /\ DeclRequired(Contributing(<<decl[i]>>)[k])
                /\ ~decl[j].anonymous /\ decl[j].tagged /\ decl[j].exported
                /\ DeclRequired(decl[j])
                /\ DeclName(decl[j]) = DeclName(Contributing(<<decl[i]>>)[k])
    /\ Len(Root.Required) = 1

-----------------------------------------------------------------------------
(* Kinds and native types, as the documentation gives them *)

\* the schema type of each kind token of the README
KindType ==
    (T_string :> "STRING") @@ (T_bool :> "BOOLEAN") @@ (T_number :> "NUMBER")
    @@ (T_integer :> "INTEGER") @@ (T_object :> "OBJECT")

\* the field is annotated with a name and one of the kinds
WellAnnotated(d) ==
    /\ d.exported /\ ~d.anonymous /\ d.tagged
    /\ Len(d.parts) >= 2
    /\ DeclKind(d) \in DOMAIN KindType

DeclaredType(d) == KindType[DeclKind(d)]

\* the schema type of a primitive native type
NativeType(k) ==
    CASE k = "string" -> "STRING"
      [] k = "bool" -> "BOOLEAN"
      [] k \in IntKinds -> "INTEGER"
      [] k \in FloatKinds -> "NUMBER"

PrimitiveKinds == {"string", "bool"} \cup IntKinds \cup FloatKinds

RECURSIVE StripArrays(_)
StripArrays(t) == IF t.k \in {"slice", "array"} THEN StripArrays(t.elem) ELSE t

\* a primitive, or arrays of a primitive, annotated with another kind
Mismatching(d) ==
    /\ WellAnnotated(d)
    /\ StripArrays(d.type).k \in PrimitiveKinds
    /\ NativeType(StripArrays(d.type).k) # DeclaredType(d)

\* the record type whose fields are the given declarations
RecordOf(decls) == TypeOf(StructOf("T", decls))

\* the annotated fields the walk comes to: those of the record and of the
\* records under its object fields, embedded records standing for their fields
RECURSIVE Walked(_)
Walked(decls) ==
    LET c == Contributing(decls) IN
    UNION { {c[i]} \cup (IF WellAnnotated(c[i]) /\ DeclaredType(c[i]) = "OBJECT"
                         THEN Walked(RecordDeclsOf(StripContainers(c[i].type)))
                         ELSE {}) : i \in 1..Len(c) }

\* the fields the walk comes to when the fields declared before them, in their
\* own record and in the records around it, are all derived without failure
RECURSIVE WalkedFirst(_, _)
WalkedFirst(decls, variables) ==
    LET c == Contributing(decls) IN
    UNION { IF MarshalResponseSchema(<<RecordOf(SubSeq(c, 1, i - 1))>>, variables).err # <<>>
            THEN {}
            ELSE {c[i]} \cup (IF WellAnnotated(c[i]) /\ DeclaredType(c[i]) = "OBJECT"
                              THEN WalkedFirst(RecordDeclsOf(StripContainers(c[i].type)), variables)
                              ELSE {}) : i \in 1..Len(c) }

Failed == Returned("MarshalResponseSchema") /\ ret.err # <<>> /\ ret.schema = <<>>

\* the kind-mismatch error of a field
MismatchOf(d) ==
    [e |-> "type mismatch for field",
     name |-> DeclName(d),
     goTypeImplies |-> NativeType(StripArrays(d.type).k),
     promptTagSpecifies |-> DeclaredType(d)]

-----------------------------------------------------------------------------
(* C4: if an annotated field that the walk comes to has a primitive native  *)
(* type, or arrays nested to any depth of a primitive, and the schema type  *)
(* of the primitive differs from the declared kind, MarshalResponseSchema   *)
(* fails; and the error it returns is the kind-mismatch error naming the    *)
(* field's declared name, the native-derived type and the declared kind     *)
(* (under the context of the enclosing fields, for a field of a nested      *)
(* record) whenever no field before it in the walk has failed already.      *)
C4_KindMismatchFails ==
    Returned("MarshalResponseSchema") =>
        /\ (\E d \in Walked(decl) : Mismatching(d)) => Failed
        /\ \A d \in WalkedFirst(decl, arg.vars) :
              Mismatching(d) => Failed /\ ret.err[Len(ret.err)] = MismatchOf(d)

\* a field of nested arrays of integers declared string, after a field that
\* is derived without failure
C4_Witness ==
    /\ Failed
    /\ Len(decl) = 2
    /\ WellAnnotated(decl[1]) /\ ~Mismatching(decl[1])
    /\ Mismatching(decl[2]) /\ decl[2].type.k = "slice" /\ decl[2].type.elem.k = "array"
    /\ decl[2] \in WalkedFirst(decl, arg.vars)
    /\ ret.err = <<MismatchOf(decl[2])>>

-----------------------------------------------------------------------------
(* C5: in every tree returned, the property node of every annotated field   *)
(* (under a name declared more than once: of the field declared last) has,  *)
(* under all its Array levels, the schema type of the kind declared in the  *)
(* field's tag; and the node is an Array exactly when the field's native    *)
(* type, pointers removed, is an array or a slice.                          *)
C5_NodeTypeIsDeclaredKind ==
    Succeeded =>
        \A p \in ObjectPairs(decl, Root) :
            \A name \in DOMAIN p.node.Properties :
                LET d == LastDeclared(p.decls, name)
                    n == p.node.Properties[name]
                IN /\ WellAnnotated(d)
                   /\ Innermost(n).Type = DeclaredType(d)
                   /\ n.Type = "ARRAY" <=> StripPointers(d.type).k \in {"slice", "array"}

\* a slice of slices and a pointer to a slice in one record
C5_Witness ==
    /\ Succeeded
    /\ \E name \in DOMAIN Root.Properties :
          LET n == Root.Properties[name] IN
          n.Type = "ARRAY" /\ n.Items[1].Type = "ARRAY" /\ n.Items[1].Items[1].Type = "STRING"
    /\ \E name \in DOMAIN Root.Properties :
          LET n == Root.Properties[name] IN
          /\ n.Type = "ARRAY" /\ n.Nullable = <<TRUE>>
          /\ LastDeclared(decl, name).type.k = "ptr"

-----------------------------------------------------------------------------
(* C6: the format of an annotated field is the explicit third token of the  *)
(* primary tag when that token is there and not empty; otherwise "enum"     *)
(* when the enum tag lists a value (is not the empty text); otherwise       *)
(* "float" when the declared kind is number; otherwise empty. It is the     *)
(* format parseFieldParams returns and the format of the emitted node.      *)

FormatOf(d) ==
    IF Len(d.parts) >= 3 /\ d.parts[3] # <<>> THEN d.parts[3]
    ELSE IF d.enumTag # <<>> THEN <<"e", "n", "u", "m">>
    ELSE IF DeclaredType(d) = "NUMBER" THEN <<"f", "l", "o", "a", "t">>
    ELSE <<>>

C6_FormatPrecedence ==
    /\ Returned("parseFieldParams") /\ ret.params # NoParams =>
          /\ WellAnnotated(decl[1])
          /\ ret.params[1].Format = FormatOf(decl[1])
    /\ Succeeded =>
          \A p \in ObjectPairs(decl, Root) :
              \A name \in DOMAIN p.node.Properties :
                  p.node.Properties[name].Format = FormatOf(LastDeclared(p.decls, name))

\* an explicit format behind the required token, and an enum
C6_Witness ==
    /\ Returned("parseFieldParams")
    /\ ret.params # NoParams
    /\ Len(decl[1].parts) = 3 /\ decl[1].parts[3] = <<"d">> /\ decl[1].reqAt = 3
    /\ Len(ret.params[1].Enum) = 2
    /\ ret.params[1].Format = <<"d">>

-----------------------------------------------------------------------------
(* Descriptions, read piece by piece.                                       *)
(* A token is a piece {id}; an opening brace on its own begins a token that *)
(* ends with the next token piece, since the pattern takes everything up to *)
(* the first closing brace.                                                 *)

IsTokenPiece(piece) == Len(piece) >= 3 /\ piece[1] = "{" /\ piece[Len(piece)] = "}"

\* the tokens of a description, in order of occurrence: [text, id]
RECURSIVE TokensOf(_, _)
TokensOf(pieces, open) ==
    IF pieces = <<>> THEN <<>>
    ELSE LET piece == Head(pieces) IN
         IF IsTokenPiece(piece)
         THEN <<[text |-> open \o piece,
                 id |-> SubSeq(open \o piece, 2, Len(open) + Len(piece) - 1)]>>
              \o TokensOf(Tail(pieces), <<>>)
         ELSE IF open # <<>> \/ piece = <<"{">> THEN TokensOf(Tail(pieces), open \o piece)
         ELSE TokensOf(Tail(pieces), <<>>)

\* the description with every token that has a mapped value replaced by it,
\* all at once, and everything else as it is
RECURSIVE Substituted(_, _, _)
Substituted(pieces, open, variables) ==
    IF pieces = <<>> THEN open
    ELSE LET piece == Head(pieces) IN
         IF IsTokenPiece(piece)
         THEN LET id == SubSeq(open \o piece, 2, Len(open) + Len(piece) - 1) IN
              (IF id \in DOMAIN variables THEN variables[id] ELSE open \o piece)
              \o Substituted(Tail(pieces), <<>>, variables)
         ELSE IF open # <<>> \/ piece = <<"{">> THEN Substituted(Tail(pieces), open \o piece, variables)
         ELSE piece \o Substituted(Tail(pieces), <<>>, variables)

HasBrace(text) == \E i \in 1..Len(text) : text[i] \in {"{", "}"}

\* no identifier has a brace in it, and no value that is substituted has one
PlainTokens(pieces, variables) ==
    LET tokens == TokensOf(pieces, <<>>) IN
    \A i \in 1..Len(tokens) :
        /\ ~HasBrace(tokens[i].id)
        /\ tokens[i].id \in DOMAIN variables => ~HasBrace(variables[tokens[i].id])

AllMapped(pieces, variables) ==
    LET tokens == TokensOf(pieces, <<>>) IN
    \A i \in 1..Len(tokens) : tokens[i].id \in DOMAIN variables

\* the identifiers without a mapped value, once per occurrence, in order
RECURSIVE MissingOf(_, _)
MissingOf(tokens, variables) ==
    IF tokens = <<>> THEN <<>>
    ELSE (IF Head(tokens).id \in DOMAIN variables THEN <<>> ELSE <<Head(tokens).id>>)
         \o MissingOf(Tail(tokens), variables)

\* the returned description starts with the text, and is the text when no
\* alias is given
DescriptionTextIs(text) ==
    /\ Len(ret.description) >= Len(text)
    /\ SubSeq(ret.description, 1, Len(text)) = text
    /\ arg.fieldParams.Aliases = <<>> => ret.description = text

-----------------------------------------------------------------------------
(* C7: renderDescription, given a description whose tokens are all keys of  *)
(* the mapping, returns without error the description with each token       *)
(* replaced by its mapped value and the text outside the tokens unchanged;  *)
(* a token whose identifier is not a key is left as it is. The code makes   *)
(* the replacements one after another on the text produced so far, so a     *)
(* token brought in by a mapped value is replaced again.                    *)
C7_AsClaimed ==
    Returned("renderDescription") =>
        /\ AllMapped(decl.pieces, arg.vars) => ret.err = <<>>
        /\ DescriptionTextIs(Substituted(decl.pieces, <<>>, arg.vars))

-----------------------------------------------------------------------------
(* C8: if a description has a token whose identifier is not a key of the    *)
(* mapping, renderDescription returns an error that carries the missing     *)
(* identifiers in their order of occurrence, next to the text it could      *)
(* render; and MarshalResponseSchema fails for the whole schema when the    *)
(* description of any annotated field of the walk has such a token: it      *)
(* returns no tree, and when nothing else fails before, the error is the    *)
(* missing-variables error under the name of the field.                     *)

\* the identifiers of the tokens of a description text that are no keys
UnmappedIds(text, variables) ==
    { id \in SeqsUpTo({"a", "b", "c", "x"}, 1) \ {<<>>} :
        /\ id \notin DOMAIN variables
        /\ \E i \in 1..(Len(text) - Len(id) - 1) :
              SubSeq(text, i, i + Len(id) + 1) = <<"{">> \o id \o <<"}">> }

\* the field without its description
Undescribed(d) == [d EXCEPT !.descTag = <<>>]

C8_MissingVariableFails ==
    /\ Returned("renderDescription") =>
          LET missing == MissingOf(TokensOf(decl.pieces, <<>>), arg.vars) IN
          /\ missing # <<>> =>
                ret.err = <<[e |-> "missing variables in description", names |-> missing]>>
          /\ missing # <<>> /\ PlainTokens(decl.pieces, arg.vars) =>
                DescriptionTextIs(Substituted(decl.pieces, <<>>, arg.vars))
    /\ Returned("MarshalResponseSchema") =>
          /\ (\E d \in Walked(decl) : UnmappedIds(d.descTag, arg.vars) # {}) => Failed
          /\ \A d \in WalkedFirst(decl, arg.vars) :
                /\ UnmappedIds(d.descTag, arg.vars) # {}
                /\ MarshalResponseSchema(<<RecordOf(<<Undescribed(d)>>)>>, arg.vars).err = <<>>
                => /\ Failed
                   /\ Len(ret.err) >= 2
                   /\ ret.err[Len(ret.err) - 1] =
                         [e |-> "error rendering description for", name |-> DeclName(d)]
                   /\ ret.err[Len(ret.err)].e = "missing variables in description"
                   /\ Range(ret.err[Len(ret.err)].names) = UnmappedIds(d.descTag, arg.vars)

\* the second field has the token {b} and the mapping has no b
C8_Witness ==
    /\ Failed
    /\ Len(decl) = 2
    /\ decl[2] \in WalkedFirst(decl, arg.vars)
    /\ WellAnnotated(decl[1]) /\ WellAnnotated(decl[2])
    /\ UnmappedIds(decl[2].descTag, arg.vars) = {Txt_b}
    /\ ret.err = <<[e |-> "error rendering description for", name |-> DeclName(decl[2])],
                   [e |-> "missing variables in description", names |-> <<Txt_b>>]>>

-----------------------------------------------------------------------------
(* C9: with a non-empty alias list a1..an the final description is the      *)
(* rendered description text (when the raw description is not empty)        *)
(* followed by one space and the sentence                                   *)
(*     Also commonly reported as 'a1', ..., 'an'.                           *)
(* each alias trimmed of blanks, in single quotes, separated by a comma and *)
(* a space, in declaration order; with an empty raw description it is that  *)
(* sentence alone; with an empty alias list nothing is appended.            *)

RECURSIVE QuotedList(_)
QuotedList(names) ==
    IF Len(names) = 1 THEN <<"'">> \o names[1] \o <<"'">>
    ELSE <<"'">> \o names[1] \o <<"'", ",", " ">> \o QuotedList(Tail(names))

AliasSentence(names) == T_also \o QuotedList(names) \o <<".">>

\* the text renderDescription gives for the same description without aliases
RenderedText ==
    renderDescription([arg.fieldParams EXCEPT !.Aliases = <<>>], arg.vars).description

C9_AliasSentence ==
    Returned("renderDescription") =>
        ret.description =
            IF decl.aliases = <<>> THEN RenderedText
            ELSE IF arg.fieldParams.Description = <<>> THEN AliasSentence(EntryCores(decl.aliases))
            ELSE RenderedText \o <<" ">> \o AliasSentence(EntryCores(decl.aliases))

\* two aliases, one written with blanks around it, behind a rendered token
C9_Witness ==
    /\ Returned("renderDescription")
    /\ decl.pieces = << <<"{", "a", "}">> >>
    /\ arg.vars = (Txt_a :> <<"v">>)
    /\ arg.fieldParams.Aliases = << <<"p">>, <<" ", "q", " ">> >>
    /\ ret.description = <<"v", " ">> \o T_also
                         \o <<"'", "p", "'", ",", " ", "'", "q", "'", ".">>

-----------------------------------------------------------------------------
(* C10: when the raw enum list has exactly one entry, of the whole-string   *)
(* form {identifier}, and the identifier is a key of the mapping, the final *)
(* enum is the list of the comma-separated pieces of the mapped value, each *)
(* trimmed of blanks, in order (no piece for the empty value); the token    *)
(* is not in it, unless the mapped value itself lists the token.            *)

\* the identifier of the raw entries that are whole-string tokens
EnumTokenId == (<<"{", "a", "}">> :> Txt_a)

-----------------------------------------------------------------------------
(* C11: renderEnum never fails. When the single raw entry is a token        *)
(* {identifier} and the identifier is not a key of the mapping, the final   *)
(* enum is the one-element list of the token as written, braces included.   *)
(* A raw list of no entry or of more than one entry is returned as it is,   *)
(* whatever its entries look like and whatever the mapping holds.           *)
C11_EnumNeverFails ==
    Returned("renderEnum") =>
        /\ ret.err = <<>>
        /\ /\ Len(decl.enum) = 1
           /\ decl.enum[1] \in DOMAIN EnumTokenId
           /\ EnumTokenId[decl.enum[1]] \notin DOMAIN decl.values
           => ret.enum = <<decl.enum[1]>>
        /\ Len(decl.enum) # 1 => ret.enum = decl.enum

\* a list of two entries, one of them a token that the mapping has a value for
C11_WitnessPassThrough ==
    /\ Returned("renderEnum")
    /\ decl.enum = << <<"p">>, <<"{", "a", "}">> >>
    /\ Txt_a \in DOMAIN arg.vars /\ arg.vars[Txt_a] = <<"p">>
    /\ ret.enum = decl.enum

\* the single entry is a token and the mapping has no value for it
C11_Witness ==
    /\ Returned("renderEnum")
    /\ decl.enum = << <<"{", "a", "}">> >>
    /\ DOMAIN arg.vars = {Txt_b}
    /\ ret.enum = decl.enum
    /\ ret.err = <<>>

-----------------------------------------------------------------------------
(* C12: in every tree returned, a node has nullable = true exactly when the *)
(* native shape it was derived from is a pointer, and has nullable unset    *)
(* otherwise: the node of a pointer field is nullable; of a slice of        *)
(* pointers the items node is nullable and the Array node is not; of a      *)
(* pointer to a slice the Array node is nullable and the items node is not. *)
(* The root is derived from the input's type, so it is nullable when the    *)
(* record is given by pointer.                                              *)

\* the declared type of the input
InputType == IF arg.v[1].k = "ptr" THEN PtrTo(StructOf("T", decl)) ELSE StructOf("T", decl)

\* the node derived from the declared type t, and every node under it
RECURSIVE NullableAsShape(_, _)
NullableAsShape(t, node) ==
    LET s == StripPointers(t) IN
    /\ node.Nullable = IF t.k = "ptr" THEN <<TRUE>> ELSE <<>>
    /\ s.k \in {"slice", "array"} =>
          /\ node.Type = "ARRAY"
          /\ Len(node.Items) = 1
          /\ NullableAsShape(s.elem, node.Items[1])
    /\ s.k = "struct" /\ node.Type = "OBJECT" =>
          \A name \in DOMAIN node.Properties :
              NullableAsShape(LastDeclared(s.decls, name).type, node.Properties[name])

C12_NullableIffPointer == Succeeded => NullableAsShape(InputType, Root)

\* a slice of pointers to records next to a plain field, the record given by value
C12_Witness ==
    /\ Succeeded
    /\ arg.v[1].k = "struct"
    /\ Root.Nullable = <<>>
    /\ \E name \in DOMAIN Root.Properties :
          LET d == LastDeclared(decl, name)  n == Root.Properties[name] IN
          /\ d.type.k = "slice" /\ d.type.elem.k = "ptr"
          /\ n.Type = "ARRAY" /\ n.Nullable = <<>>
          /\ n.Items[1].Type = "OBJECT" /\ n.Items[1].Nullable = <<TRUE>>
          /\ \A inner \in DOMAIN n.Items[1].Properties :
                n.Items[1].Properties[inner].Nullable = <<>>

\* a pointer to a slice, the record given by pointer
C12_WitnessPointerToSlice ==
    /\ Succeeded
    /\ arg.v[1].k = "ptr"
    /\ Root.Nullable = <<TRUE>>
    /\ \E name \in DOMAIN Root.Properties :
          LET d == LastDeclared(decl, name)  n == Root.Properties[name] IN
          /\ d.type.k = "ptr" /\ d.type.elem.k = "slice"
          /\ n.Type = "ARRAY" /\ n.Nullable = <<TRUE>>
          /\ n.Items[1].Nullable = <<>>

-----------------------------------------------------------------------------
(* C15: the derivation is all or nothing. MarshalResponseSchema returns     *)
(* either a tree and no error, or an error and no tree, never both and      *)
(* never neither; and for a record, or a pointer to a record, it returns    *)
(* the error exactly when some step of the walk fails, at any depth: the    *)
(* tag of a field is malformed or names no kind, the native type of a       *)
(* field is not supported, its kind does not match, or its description has  *)
(* a token without a mapped value; in the record itself, in an embedded     *)
(* record, in the record of an array's items or behind a pointer.           *)

\* the step that derives the annotated field d fails by itself
FaultyItself(d, variables) ==
    LET inner == StripContainers(d.type) IN
    \/ ~WellAnnotated(d)
    \/ inner.k \notin PrimitiveKinds \cup {"struct"}
    \/ inner.k \in PrimitiveKinds /\ NativeType(inner.k) # DeclaredType(d)
    \/ UnmappedIds(d.descTag, variables) # {}

\* the input is a record or a pointer to a record
Accepted ==
    /\ arg.v # <<>>
    /\ \/ arg.v[1].k = "struct"
       \/ arg.v[1].k = "ptr" /\ arg.v[1].elem.k = "struct"

C15_AllOrNothing ==
    Returned("MarshalResponseSchema") =>
        /\ ret.err # <<>> <=> ret.schema = <<>>
        /\ Len(ret.schema) <= 1
        /\ Accepted =>
              (ret.err # <<>> <=> \E d \in Walked(decl) : FaultyItself(d, arg.vars))

\* the second field is an embedded record with a failing field, the first
\* field is derived without failure
C15_Witness ==
    /\ Failed
    /\ Len(decl) = 2
    /\ WellAnnotated(decl[1]) /\ ~FaultyItself(decl[1], arg.vars)
    /\ decl[1].type.k \in PrimitiveKinds
    /\ decl[2].anonymous /\ decl[2].exported
    /\ \E d \in Walked(<<decl[2]>>) : FaultyItself(d, arg.vars)
    /\ ret.err[1] = [e |-> "error marshaling embedded field", field |-> decl[2].goName]

\* the failing field lies in the record of the items of a slice
C15_WitnessInItems ==
    /\ Failed
    /\ Len(decl) = 1
    /\ decl[1].type.k = "slice" /\ decl[1].type.elem.k = "struct"
    /\ ~FaultyItself(decl[1], arg.vars)
    /\ ret.err[2].e = "error marshaling array/slice items of type"

\* the failing field lies in a record behind a pointer
C15_WitnessBehindPointer ==
    /\ Failed
    /\ Len(decl) = 1
    /\ decl[1].type.k = "ptr" /\ decl[1].type.elem.k = "struct"
    /\ ~FaultyItself(decl[1], arg.vars)
    /\ ret.err[Len(ret.err)].e = "unsupported type kind for schema generation"

-----------------------------------------------------------------------------
(* C16: MarshalResponseSchema rejects its input before any field is walked: *)
(* a nil input fails with the nil-input error; an input that is no record   *)
(* after one pointer level at most is unwrapped fails with the not-a-record *)
(* error that names the kind found there (for a pointer to a pointer to a   *)
(* record: ptr), whatever the fields behind it are; a record and a pointer  *)
(* to a record are accepted, so neither error is returned for them.         *)

\* the kind that the not-a-record error names, for each rejected input
KindNamed ==
    (Prim("string") :> "string") @@ (Prim("int") :> "int")
    @@ (PtrTo(Prim("string")) :> "string")
    @@ (TypeOf(PtrTo(PtrTo(StructOf("T", <<Plain("G", Prim("string"), Txt_a, T_integer)>>)))) :> "ptr")
    @@ (TypeOf(SliceOf(StructOf("T", <<Plain("A", Prim("string"), Txt_a, T_string)>>))) :> "slice")

NilInputError == [e |-> "input value for schema generation cannot be nil"]

NotARecordError(kind) ==
    [e |-> "input value for schema generation must be a struct, got", kind |-> kind]

C16_TopLevelInputIsChecked ==
    Returned("MarshalResponseSchema") =>
        /\ arg.v = <<>> => ret.schema = <<>> /\ ret.err = <<NilInputError>>
        /\ arg.v # <<>> /\ arg.v[1] \in DOMAIN KindNamed =>
              ret.schema = <<>> /\ ret.err = <<NotARecordError(KindNamed[arg.v[1]])>>
        /\ arg.v # <<>> /\ arg.v[1] \notin DOMAIN KindNamed =>
              /\ Accepted
              /\ \A i \in 1..Len(ret.err) :
                    ret.err[i].e \notin {NilInputError.e, NotARecordError("").e}
              /\ decl = <<>> => ret.err = <<>> /\ ret.schema[1].Type = "OBJECT"

\* a pointer to a pointer to a record whose only field would fail
C16_Witness ==
    /\ Returned("MarshalResponseSchema")
    /\ arg.v # <<>> /\ arg.v[1].k = "ptr" /\ arg.v[1].elem.k = "ptr"
    /\ arg.v[1].elem.elem.k = "struct"
    /\ ret.schema = <<>>
    /\ ret.err = <<NotARecordError("ptr")>>

\* a pointer to a record is accepted and its fields are walked
C16_WitnessAccepted ==
    /\ Succeeded
    /\ arg.v[1].k = "ptr"
    /\ Len(decl) = 2
    /\ Len(Root.PropertyOrdering) = 2

-----------------------------------------------------------------------------
(* C17: parseFieldParams fails with the malformed-annotation error exactly  *)
(* when the primary tag is not empty and fewer than two parts are left once *)
(* every part "required" is taken out of its comma-separated parts; and the *)
(* schema build fails with that error under the native name of the field.   *)

MalformedError == [e |-> "missing either prompt property name or type"]

\* the primary tag is written and is not the empty text
TagWritten(d) == d.tagged /\ (d.parts # <<>> \/ d.reqAt # 0)

\* fewer than two parts are declared besides "required"
Malformed(d) == TagWritten(d) /\ Len(d.parts) < 2

C17_MalformedAnnotation ==
    /\ Returned("parseFieldParams") =>
          /\ ret.err = <<MalformedError>> <=> Malformed(decl[1])
          /\ Malformed(decl[1]) => ret.params = NoParams
          /\ ~TagWritten(decl[1]) => ret.params = NoParams /\ ret.err = <<>>
    /\ Returned("MarshalResponseSchema") =>
          \A d \in WalkedFirst(decl, arg.vars) :
              Malformed(d) =>
                  /\ Failed
                  /\ Len(ret.err) >= 2
                  /\ ret.err[Len(ret.err) - 1] =
                        [e |-> "failed to parse field params for", field |-> d.goName]
                  /\ ret.err[Len(ret.err)] = MalformedError

\* the tag required,a,required: one part is left
C17_Witness ==
    /\ Returned("parseFieldParams")
    /\ arg.tag.prompt = T_required \o <<",", "a", ",">> \o T_required
    /\ decl[1].parts = <<Txt_a>>
    /\ ret.err = <<MalformedError>>
    /\ ret.params = NoParams

\* the second field of a record is malformed
C17_WitnessWrapped ==
    /\ Failed
    /\ Len(decl) = 2
    /\ ~FaultyItself(decl[1], arg.vars) /\ WellAnnotated(decl[1])
    /\ Malformed(decl[2]) /\ decl[2].exported
    /\ ret.err = <<[e |-> "failed to parse field params for", field |-> decl[2].goName],
                   MalformedError>>

-----------------------------------------------------------------------------
(* C18: where "required" stands in the primary tag makes no difference.     *)
(* For a part list name,kind[,format] with a recognised kind and "required" *)
(* put in at any index, parseFieldParams returns the name, kind and format  *)
(* that it returns for the list alone, which are the first, second and      *)
(* third declared part, and required = true; for the list alone, false.     *)

\* the tag of the declaration written without "required"
TagWithoutRequired(d) == StructFields(<<[d EXCEPT !.reqAt = 0]>>)[1].Tag

C18_RequiredAnywhere ==
    /\ Returned("parseFieldParams")
    /\ Len(decl[1].parts) >= 2
    /\ DeclKind(decl[1]) \in DOMAIN KindType
    => LET d == decl[1]
           alone == parseFieldParams(TagWithoutRequired(d))
       IN /\ ret.err = <<>> /\ ret.params # NoParams
          /\ alone.err = <<>> /\ alone.params # NoParams
          /\ ret.params[1].Name = alone.params[1].Name
          /\ ret.params[1].Type = alone.params[1].Type
          /\ ret.params[1].Format = alone.params[1].Format
          /\ ret.params[1].Name = DeclName(d)
          /\ ret.params[1].Type = DeclaredType(d)
          /\ ret.params[1].IsRequired <=> d.reqAt # 0
          /\ ~alone.params[1].IsRequired

\* required between the name and the kind, before a format
C18_Witness ==
    /\ Returned("parseFieldParams")
    /\ arg.tag.prompt = <<"a", ",">> \o T_required \o <<",">> \o T_number \o <<",", "d">>
    /\ ret.params # NoParams
    /\ ret.params[1].Name = Txt_a
    /\ ret.params[1].Type = "NUMBER"
    /\ ret.params[1].Format = <<"d">>
    /\ ret.params[1].IsRequired

\* required in front of the name
C18_WitnessFirst ==
    /\ Returned("parseFieldParams")
    /\ decl[1].reqAt = 1 /\ decl[1].parts = <<Txt_a, T_string>>
    /\ arg.tag.prompt = T_required \o <<",", "a", ",">> \o T_string
    /\ ret.params # NoParams
    /\ ret.params[1].Name = Txt_a /\ ret.params[1].IsRequired

-----------------------------------------------------------------------------
(* C19, as claimed: the kind token of the primary tag is accepted exactly   *)
(* when it is one of string, bool, boolean, number, integer, object, which  *)
(* stand for String, Boolean, Boolean, Number, Integer, Object; every other *)
(* token makes the derivation fail with the unsupported-kind error.         *)

T_boolean == <<"b", "o", "o", "l", "e", "a", "n">>

ClaimedKindType == KindType @@ (T_boolean :> "BOOLEAN")

UnsupportedKindError(token) == [e |-> "unsupported field type", token |-> token]

\* the outcome of parseFieldParams and of the schema build, given the kinds
KindTokenDecides(kinds) ==
    /\ Returned("parseFieldParams") /\ Len(decl[1].parts) >= 2 =>
          LET token == DeclKind(decl[1]) IN
          IF token \in DOMAIN kinds
          THEN ret.err = <<>> /\ ret.params # NoParams /\ ret.params[1].Type = kinds[token]
          ELSE ret.params = NoParams /\ ret.err = <<UnsupportedKindError(token)>>
    /\ Returned("MarshalResponseSchema") =>
          \A d \in WalkedFirst(decl, arg.vars) :
              Len(d.parts) >= 2 /\ DeclKind(d) \notin DOMAIN kinds =>
                  /\ Failed
                  /\ Len(ret.err) >= 2
                  /\ ret.err[Len(ret.err) - 1] =
                        [e |-> "failed to parse field params for", field |-> d.goName]
                  /\ ret.err[Len(ret.err)] = UnsupportedKindError(DeclKind(d))

C19_AsClaimed == KindTokenDecides(ClaimedKindType)

(* C19, amended: the kind token is accepted exactly when it is one of       *)
(* string, bool, number, integer, object, which stand for String, Boolean,  *)
(* Number, Integer, Object; every other token, boolean, the empty token,    *)
(* differently-cased and blank-padded tokens and array among them, makes    *)
(* parseFieldParams, and so the derivation, fail with the unsupported-kind  *)
(* error that names the token.                                              *)
C19_FiveKindTokens == KindTokenDecides(KindType)

\* a field Flag bool `prompt:"a,boolean"` fails the schema build
C19_Witness ==
    /\ Failed
    /\ Len(decl) = 2
    /\ WellAnnotated(decl[1]) /\ ~FaultyItself(decl[1], arg.vars)
    /\ decl[2].exported /\ decl[2].tagged /\ ~decl[2].anonymous
    /\ decl[2].parts = <<Txt_a, T_boolean>>
    /\ decl[2].type = Prim("bool")
    /\ ret.err = <<[e |-> "failed to parse field params for", field |-> decl[2].goName],
                   UnsupportedKindError(T_boolean)>>

\* the token bool is accepted as Boolean
C19_WitnessBool ==
    /\ Returned("parseFieldParams")
    /\ Len(decl[1].parts) >= 2
    /\ DeclKind(decl[1]) = T_bool
    /\ ret.params # NoParams /\ ret.params[1].Type = "BOOLEAN"

-----------------------------------------------------------------------------
(* C20: a field without a primary tag, and an unexported field, whatever    *)
(* its tags say, is skipped silently. The call returns what it returns for  *)
(* the record type without these fields, at every level: the same error, or *)
(* the same tree, so the same properties, required names and ordering of    *)
(* the remaining fields; and such a field never is the cause of an error.   *)

\* the walk passes over the field
Skipped(d) == ~d.exported \/ (~d.anonymous /\ ~TagWritten(d))

\* the declarations, and the declared type, without the fields passed over
RECURSIVE Kept(_)
RECURSIVE KeptType(_)
Kept(decls) ==
    IF decls = <<>> THEN <<>>
    ELSE IF Skipped(Head(decls)) THEN Kept(Tail(decls))
    ELSE <<[Head(decls) EXCEPT !.type = KeptType(@)]>> \o Kept(Tail(decls))

KeptType(t) ==
    CASE t.k = "struct" -> StructOf(t.name, Kept(t.decls))
      [] t.k \in {"ptr", "slice", "array"} -> [t EXCEPT !.elem = KeptType(@)]
      [] OTHER -> t

\* some field is passed over, in the record or in a record under it
RECURSIVE SomeSkipped(_)
SomeSkipped(decls) ==
    \E i \in 1..Len(decls) :
        \/ Skipped(decls[i])
        \/ SomeSkipped(RecordDeclsOf(StripContainers(decls[i].type)))

C20_SkippedFieldsLeaveNoTrace ==
    Returned("MarshalResponseSchema") /\ Accepted =>
        /\ ret = MarshalResponseSchema(<<TypeOf(KeptType(InputType))>>, arg.vars)
        /\ Succeeded =>
              /\ Root.PropertyOrdering = DeclaredOrder(Kept(decl))
              /\ \A i \in 1..Len(decl) :
                    Skipped(decl[i]) /\ decl[i].parts # <<>>
                    /\ (\A j \in 1..Len(decl) : j # i => Skipped(decl[j]))
                    => Root.Properties = <<>> /\ Root.Required = <<>>

\* an unexported field with a malformed tag and an unmapped description token
\* in front of a field that is derived
C20_Witness ==
    /\ Succeeded
    /\ Len(decl) = 2
    /\ ~decl[1].exported /\ decl[1].tagged /\ Len(decl[1].parts) = 1
    /\ UnmappedIds(decl[1].descTag, arg.vars) # {}
    /\ WellAnnotated(decl[2])
    /\ Root.PropertyOrdering = <<DeclName(decl[2])>>
    /\ DOMAIN Root.Properties = {DeclName(decl[2])}

\* an untagged and an unexported field between two fields of an embedded record
C20_WitnessBetween ==
    /\ Succeeded
    /\ Len(decl) = 1
    /\ decl[1].anonymous /\ decl[1].exported
    /\ decl[1].type.k = "struct"
    /\ Len(decl[1].type.decls) = 4
    /\ Skipped(decl[1].type.decls[2]) /\ Skipped(decl[1].type.decls[3])
    /\ Root.PropertyOrdering = <<Txt_a, Txt_b>>
    /\ Root.Required = <<Txt_a>>

-----------------------------------------------------------------------------
(* C13: MarshalResponseSchema is deterministic. Two calls that are given    *)
(* the same record type, both by value or both by pointer, and maps with    *)
(* the same variables, return the same: both the same error, or trees that  *)
(* are equal in every node and every field of a node, propertyOrdering and  *)
(* required as sequences; whatever order the runtime ranges over the maps   *)
(* in, and however the steps of the two calls follow each other.            *)

\* the two calls are given equal arguments
SameArguments ==
    /\ decl.types[arg[1].t] = decl.types[arg[2].t]
    /\ arg[1].byPointer = arg[2].byPointer
    /\ decl.maps[arg[1].m] = decl.maps[arg[2].m]

C13_Deterministic ==
    pc = [c \in Calls |-> "done"] /\ SameArguments => ret[1] = ret[2]

\* two calls with an embedded record, given different map objects with the
\* same variables, have returned the same tree
C13_Witness ==
    /\ op = "interleaved"
    /\ pc = [c \in Calls |-> "done"]
    /\ SameArguments
    /\ arg[1].m # arg[2].m
    /\ \E i \in 1..2 : decl.types[arg[1].t][i].anonymous
    /\ ret[1].err = <<>> /\ ret[1] = ret[2]
    /\ Len(ret[1].schema[1].PropertyOrdering) = 3

-----------------------------------------------------------------------------
(* C14: two calls of MarshalResponseSchema do not interfere. With the steps *)
(* of the two calls in any order, for different record types, for the same  *)
(* record type with different maps of variables and for the very same       *)
(* arguments, each call returns what the call alone returns for its         *)
(* arguments; the record types and the maps of variables stay as they were  *)
(* given; and a call that is not in its loop has no locals and, before it   *)
(* has returned, no result that a step of the other call could have left.   *)
C14_NoInterference ==
    op = "interleaved" =>
        /\ heap = decl
        /\ \A c \in Calls :
              /\ pc[c] = "done" =>
                    ret[c] = MarshalResponseSchema(InputOf(decl.types, arg[c]), decl.maps[arg[c].m])
              /\ pc[c] # "walking" => frame[c] = NoFrame
              /\ pc[c] # "done" => ret[c] = NoRet

\* both calls are given the very same record type and map, the second call
\* has run its loop between two turns of the loop of the first
C14_Witness ==
    /\ op = "interleaved"
    /\ arg[1].t = arg[2].t /\ arg[1].m = arg[2].m
    /\ DOMAIN decl.maps[arg[1].m] = {Txt_a}
    /\ pc[1] = "walking" /\ frame[1].i = 2
    /\ pc[2] = "done"
    /\ ret[2].err = <<>>
    /\ \E name \in DOMAIN ret[2].schema[1].Properties :
          ret[2].schema[1].Properties[name].Description = <<"v">>

-----------------------------------------------------------------------------
(* C21: if an annotated field that the walk comes to has a native type      *)
(* that, under its pointers and array levels, is of none of the supported   *)
(* kinds (a complex number, a map, a channel, a function, an interface),    *)
(* MarshalResponseSchema fails, whichever of the five kinds the tag         *)
(* declares; and whenever no field before it in the walk has failed, the    *)
(* error is the unsupported-type error that names the kind and the type     *)
(* found, under the context of the array levels gone through and of the     *)
(* property, which names the declared name, the native field name and the   *)
(* native type of the field.                                                *)

\* the type under the pointers and array levels is of no supported kind
Unsupported(d) ==
    /\ WellAnnotated(d)
    /\ StripContainers(d.type).k \notin PrimitiveKinds \cup {"struct"}

\* the contexts of the array levels of a type, and the error of what is under them
RECURSIVE UnsupportedUnder(_)
UnsupportedUnder(t) ==
    CASE t.k = "ptr" -> UnsupportedUnder(t.elem)
      [] t.k \in {"slice", "array"} ->
            <<[e |-> "error marshaling array/slice items of type", goType |-> TypeString(t.elem)]>>
            \o UnsupportedUnder(t.elem)
      [] OTHER -> <<[e |-> "unsupported type kind for schema generation",
                     kind |-> t.k, goType |-> TypeString(t)]>>

UnsupportedOf(d) ==
    <<[e |-> "error marshaling property", name |-> DeclName(d),
       goField |-> d.goName, goType |-> TypeString(d.type)]>>
    \o UnsupportedUnder(d.type)

\* the last n contexts of an error
Suffix(err, n) == SubSeq(err, Len(err) - n + 1, Len(err))

C21_UnsupportedNativeType ==
    Returned("MarshalResponseSchema") /\ Accepted =>
        /\ (\E d \in Walked(decl) : Unsupported(d)) => Failed
        /\ \A d \in WalkedFirst(decl, arg.vars) :
              Unsupported(d) =>
                 /\ Failed
                 /\ Len(ret.err) >= Len(UnsupportedOf(d))
                 /\ Suffix(ret.err, Len(UnsupportedOf(d))) = UnsupportedOf(d)

\* a slice of pointers to maps declared object, after a field that is derived
C21_Witness ==
    /\ Failed
    /\ Len(decl) = 2
    /\ ~FaultyItself(decl[1], arg.vars)
    /\ Unsupported(decl[2]) /\ DeclKind(decl[2]) = T_object
    /\ decl[2].type.k = "slice" /\ StripContainers(decl[2].type).k = "map"
    /\ ret.err = UnsupportedOf(decl[2])
    /\ Len(ret.err) = 3

\* the complex number declared integer
C21_WitnessComplex ==
    /\ Failed
    /\ Len(decl) = 1
    /\ Unsupported(decl[1]) /\ decl[1].type = Prim("complex64")
    /\ DeclKind(decl[1]) = T_integer
    /\ ret.err = UnsupportedOf(decl[1])

-----------------------------------------------------------------------------
(* C22: GenerateGeminiParts includes every file input that is provided.     *)
(* With a category, a text content and binary data with a mime type, and a  *)
(* response record that is derived, the parts are the three parts that      *)
(* frame the text content, then the binary part, then the prompts in their  *)
(* order; with no category and no text content but binary data, the call    *)
(* succeeds and the parts are the binary part and then the prompts.         *)

FileContextGiven == arg.params.FileContext

\* the binary data and its mime type are given
BinaryGiven ==
    /\ FileContextGiven.BinaryFileContent.FileBytes # <<>>
    /\ FileContextGiven.BinaryFileContent.FileMimeType # <<>>

\* the response record is derived without failure, no pages are given
SchemaDerived ==
    /\ MarshalResponseSchema(arg.params.ResponseStruct, arg.params.TemplateVariables).err = <<>>
    /\ FileContextGiven.PaginatedFileContents = <<>>

BinaryPart ==
    NewPartFromBytes(FileContextGiven.BinaryFileContent.FileBytes,
                     FileContextGiven.BinaryFileContent.FileMimeType)

TextTriple ==
    <<NewPartFromText(CategoryHeader(FileContextGiven.FileCategory)),
      NewPartFromText(FileContextGiven.FileContent),
      NewPartFromText(CategoryFooter)>>

C22_AsClaimed ==
    Returned("GenerateGeminiParts") /\ BinaryGiven /\ SchemaDerived =>
        /\ FileContextGiven.FileCategory # <<>> /\ FileContextGiven.FileContent # <<>> =>
              /\ ret.err = <<>>
              /\ ret.parts = TextTriple \o <<BinaryPart>> \o textParts(arg.params.Prompt)
        /\ FileContextGiven.FileCategory = <<>> /\ FileContextGiven.FileContent = <<>> =>
              /\ ret.err = <<>>
              /\ ret.parts = <<BinaryPart>> \o textParts(arg.params.Prompt)

-----------------------------------------------------------------------------
(* C23: a field whose native type, under its pointers and array levels, is  *)
(* a record, and whose tag declares one of the kinds string, bool, number   *)
(* or integer, is derived as a leaf: the node under its Array levels has    *)
(* the declared kind as its type and no properties, propertyOrdering,       *)
(* required or items. The fields of the record are not walked: the result   *)
(* of MarshalResponseSchema, tree or error, is the result for the type in   *)
(* which every such record is declared without any field; so a malformed    *)
(* tag, an unsupported type or a kind mismatch inside the record causes no  *)
(* error, and the field itself fails for no other reason than a token of    *)
(* its description without a mapped value.                                  *)

\* a record, or pointers to and arrays of a record, declared with a kind that is not object
RecordAsLeaf(d) ==
    /\ WellAnnotated(d)
    /\ DeclaredType(d) # "OBJECT"
    /\ StripContainers(d.type).k = "struct"

RECURSIVE WithoutFields(_)
\* the type with the record under its pointers and arrays declared without fields
WithoutFields(t) ==
    CASE t.k \in {"ptr", "slice", "array"} -> [t EXCEPT !.elem = WithoutFields(t.elem)]
      [] t.k = "struct" -> [t EXCEPT !.decls = <<>>]
      [] OTHER -> t

RECURSIVE LeavesEmptied(_)
\* the type with every record that is declared as a leaf declared without fields
LeavesEmptied(t) ==
    CASE t.k \in {"ptr", "slice", "array"} -> [t EXCEPT !.elem = LeavesEmptied(t.elem)]
      [] t.k = "struct" ->
            [t EXCEPT !.decls = [i \in 1..Len(t.decls) |->
                [t.decls[i] EXCEPT !.type = IF RecordAsLeaf(t.decls[i])
                                           THEN WithoutFields(t.decls[i].type)
                                           ELSE LeavesEmptied(t.decls[i].type)]]]
      [] OTHER -> t

\* the node is a leaf of the given type
IsLeafOf(node, type) ==
    /\ node.Type = type
    /\ node.Properties = <<>> /\ node.PropertyOrdering = <<>>
    /\ node.Required = <<>> /\ node.Items = <<>>

C23_RecordDeclaredAsLeaf ==
    Returned("MarshalResponseSchema") /\ Accepted =>
        /\ ret = MarshalResponseSchema(<<TypeOf(LeavesEmptied(InputType))>>, arg.vars)
        /\ (\A d \in Walked(decl) : RecordAsLeaf(d) \/ ~FaultyItself(d, arg.vars))
           /\ (\A d \in Walked(decl) : RecordAsLeaf(d) => UnmappedIds(d.descTag, arg.vars) = {})
              => Succeeded
        /\ Succeeded =>
              \A p \in ObjectPairs(decl, Root) :
                  \A name \in DOMAIN p.node.Properties :
                      LET d == LastDeclared(p.decls, name) IN
                      RecordAsLeaf(d) =>
                          IsLeafOf(Innermost(p.node.Properties[name]), DeclaredType(d))

\* a slice of pointers to a record with an unsupported field, declared number
C23_Witness ==
    /\ Succeeded
    /\ Len(decl) = 2
    /\ RecordAsLeaf(decl[2]) /\ DeclKind(decl[2]) = T_number
    /\ decl[2].type.k = "slice"
    /\ \E d \in Walked(StripContainers(decl[2].type).decls) : Unsupported(d)
    /\ Root.Properties[DeclName(decl[2])].Type = "ARRAY"
    /\ IsLeafOf(Innermost(Root.Properties[DeclName(decl[2])]), "NUMBER")

\* a record with a malformed tag, declared string
C23_WitnessMalformedInside ==
    /\ Succeeded
    /\ Len(decl) = 1
    /\ RecordAsLeaf(decl[1]) /\ decl[1].type.k = "struct"
    /\ \E i \in 1..Len(decl[1].type.decls) : Malformed(decl[1].type.decls[i])
    /\ IsLeafOf(Root.Properties[DeclName(decl[1])], "STRING")

-----------------------------------------------------------------------------
(* C24: two fields that contribute the same property name to one Object     *)
(* node, one of them at least through an embedded record, are no error:     *)
(* when every field of the walk is sound the derivation succeeds; and in    *)
(* every tree returned, properties[name] of every Object node is the node   *)
(* that the contributing field declared last under that name derives (an    *)
(* own field declared after the embedded record, a field of an embedded     *)
(* record declared after an own field or after another embedded record).    *)

\* the fields that an embedded record contributes
FromEmbedded(decls) ==
    UNION { Range(Contributing(<<decls[i]>>)) : i \in {k \in 1..Len(decls) : decls[k].anonymous} }

\* a name is contributed twice, once at least by a field of an embedded record
Collides(decls, name) ==
    LET c == Contributing(decls) IN
    \E i, j \in 1..Len(c) :
        /\ i < j
        /\ Len(c[i].parts) >= 1 /\ Len(c[j].parts) >= 1
        /\ DeclName(c[i]) = name /\ DeclName(c[j]) = name
        /\ c[i] \in FromEmbedded(decls) \/ c[j] \in FromEmbedded(decls)

\* the node that the field derives when it is the only field of a record
NodeOf(d, variables) ==
    MarshalResponseSchema(<<RecordOf(<<d>>)>>, variables).schema[1].Properties[DeclName(d)]

C24_CollisionLastWins ==
    Returned("MarshalResponseSchema") /\ Accepted =>
        /\ (\A d \in Walked(decl) : ~FaultyItself(d, arg.vars)) => Succeeded
        /\ Succeeded =>
              \A p \in ObjectPairs(decl, Root) :
                  \A name \in DOMAIN p.node.Properties :
                      p.node.Properties[name] = NodeOf(LastDeclared(p.decls, name), arg.vars)

\* an own field declared after the embedded record overwrites its field
C24_Witness ==
    /\ Succeeded
    /\ Len(decl) = 2
    /\ decl[1].anonymous
    /\ ~decl[2].anonymous /\ decl[2].tagged /\ decl[2].exported
    /\ Collides(decl, DeclName(decl[2]))
    /\ Root.Properties[DeclName(decl[2])] = NodeOf(decl[2], arg.vars)
    /\ \E d \in FromEmbedded(decl) :
          DeclName(d) = DeclName(decl[2]) /\ NodeOf(d, arg.vars) # NodeOf(decl[2], arg.vars)

\* a field of an embedded record declared after an own field overwrites it
C24_WitnessEmbeddedLast ==
    /\ Succeeded
    /\ Len(decl) = 2
    /\ ~decl[1].anonymous /\ decl[1].tagged /\ decl[1].exported /\ decl[2].anonymous
    /\ Collides(decl, DeclName(decl[1]))
    /\ Root.Properties[DeclName(decl[1])] # NodeOf(decl[1], arg.vars)
    /\ \E d \in FromEmbedded(decl) :
          DeclName(d) = DeclName(decl[1]) /\ Root.Properties[DeclName(d)] = NodeOf(d, arg.vars)

-----------------------------------------------------------------------------
(* C25: MarshalResponseSchema returns the error of the first failure of the *)
(* walk. The walk is depth first in declaration order, an embedded record   *)
(* and the record of an object field being walked where the field is        *)
(* declared; for every field the tag is parsed first, then the native type  *)
(* is derived (for an object field: its record is walked), then the kind    *)
(* is checked, then the description is rendered. The call fails exactly     *)
(* when one of these checks fails, the error ends with the error of the     *)
(* first check that fails, and what is declared after the failing field     *)
(* plays no part in the result. A field with a kind mismatch and a token    *)
(* without a value reports the kind mismatch.                               *)

Check(d, stage) == [d |-> d, stage |-> stage]

\* the record of the field is walked
WalksInto(d) ==
    WellAnnotated(d) /\ DeclaredType(d) = "OBJECT" /\ StripContainers(d.type).k = "struct"

RECURSIVE ChecksOf(_)
\* the checks of the walk over the declarations, in their order
ChecksOf(decls) ==
    LET c == Contributing(decls)
        own(d) == <<Check(d, "tag")>>
                  \o (IF ~WellAnnotated(d) THEN <<>>
                      ELSE (IF WalksInto(d)
                            THEN ChecksOf(RecordDeclsOf(StripContainers(d.type)))
                            ELSE <<Check(d, "shape")>>)
                           \o <<Check(d, "kind"), Check(d, "description")>>)
    IN Flatten([i \in 1..Len(c) |-> own(c[i])])

\* the check fails
Fails(check, variables) ==
    LET d == check.d
        inner == StripContainers(d.type)
    IN CASE check.stage = "tag" -> ~WellAnnotated(d)
         [] check.stage = "shape" -> inner.k \notin PrimitiveKinds \cup {"struct"}
         [] check.stage = "kind" ->
                inner.k \in PrimitiveKinds /\ NativeType(inner.k) # DeclaredType(d)
         [] check.stage = "description" -> UnmappedIds(d.descTag, variables) # {}

\* the error ends with the error of the check
EndsWithErrorOf(err, check) ==
    LET d == check.d
        n == Len(err)
    IN CASE check.stage = "tag" ->
                /\ n >= 2
                /\ err[n - 1] = [e |-> "failed to parse field params for", field |-> d.goName]
                /\ err[n].e = IF Malformed(d) THEN "missing either prompt property name or type"
                              ELSE "unsupported field type"
         [] check.stage = "shape" ->
                n >= Len(UnsupportedOf(d)) /\ Suffix(err, Len(UnsupportedOf(d))) = UnsupportedOf(d)
         [] check.stage = "kind" ->
                /\ n >= 1
                /\ err[n] = [e |-> "type mismatch for field", name |-> DeclName(d),
                             goTypeImplies |-> NativeType(StripContainers(d.type).k),
                             promptTagSpecifies |-> DeclaredType(d)]
         [] check.stage = "description" ->
                /\ n >= 2
                /\ err[n - 1] = [e |-> "error rendering description for", name |-> DeclName(d)]
                /\ err[n].e = "missing variables in description"

\* the checks that fail, by their place in the walk
FailingChecks(decls, variables) ==
    LET checks == ChecksOf(decls) IN
    {i \in 1..Len(checks) : Fails(checks[i], variables)}

Least(S) == CHOOSE i \in S : \A j \in S : i <= j

FirstFailing(decls, variables) == ChecksOf(decls)[Least(FailingChecks(decls, variables))]

\* the input type with the declarations of its record cut after the first n
CutAfter(n) ==
    IF arg.v[1].k = "ptr" THEN PtrTo(StructOf("T", SubSeq(decl, 1, n)))
    ELSE StructOf("T", SubSeq(decl, 1, n))

C25_FirstFailureIsReturned ==
    Returned("MarshalResponseSchema") /\ Accepted =>
        /\ Failed <=> FailingChecks(decl, arg.vars) # {}
        /\ Failed =>
              /\ EndsWithErrorOf(ret.err, FirstFailing(decl, arg.vars))
              /\ \E n \in 1..Len(decl) :
                    /\ MarshalResponseSchema(<<TypeOf(CutAfter(n - 1))>>, arg.vars).err = <<>>
                    /\ MarshalResponseSchema(<<TypeOf(CutAfter(n))>>, arg.vars) = ret

\* one field with a kind mismatch and a token without a value: the mismatch
C25_Witness ==
    /\ Failed
    /\ Len(decl) = 1
    /\ WellAnnotated(decl[1])
    /\ Fails(Check(decl[1], "kind"), arg.vars)
    /\ Fails(Check(decl[1], "description"), arg.vars)
    /\ FirstFailing(decl, arg.vars) = Check(decl[1], "kind")
    /\ ret.err[1].e = "type mismatch for field"

\* two failing fields: the first is an object field that fails inside its
\* record, the second has a malformed tag
C25_WitnessDepthFirst ==
    /\ Failed
    /\ Len(decl) = 2
    /\ WalksInto(decl[1])
    /\ FirstFailing(decl, arg.vars).d \in Walked(RecordDeclsOf(StripContainers(decl[1].type)))
    /\ decl[2].tagged /\ decl[2].exported /\ ~decl[2].anonymous
    /\ Fails(Check(decl[2], "tag"), arg.vars)
    /\ ret.err[1].e = "error marshaling property"

-----------------------------------------------------------------------------
(* C26: for an annotated field whose property node is an Array, at any      *)
(* depth of nesting and behind pointers, the description, the format and    *)
(* the enum of the field are on that outermost Array node, where they are   *)
(* what the same annotation gives on a field of the element type; every     *)
(* items node below it has an empty description, format and enum, an Object *)
(* node among them too, whose properties are those its own record derives.  *)

RECURSIVE ItemsBelow(_)
\* the items nodes under a node, at every depth
ItemsBelow(node) ==
    IF node.Items = <<>> THEN {}
    ELSE {node.Items[1]} \cup ItemsBelow(node.Items[1])

\* the same field with the type under its pointers and arrays as its type
ElementField(d) == [d EXCEPT !.type = StripContainers(d.type)]

\* the node carries a description, a format or an enum
Annotated(node) == node.Description # <<>> \/ node.Format # <<>> \/ node.Enum # <<>>

C26_AnnotationsOnOutermostArray ==
    Succeeded =>
        \A p \in ObjectPairs(decl, Root) :
            \A name \in DOMAIN p.node.Properties :
                LET d == LastDeclared(p.decls, name)
                    n == p.node.Properties[name]
                    e == NodeOf(ElementField(d), arg.vars)
                IN n.Type = "ARRAY" =>
                      /\ n.Description = e.Description
                      /\ n.Format = e.Format
                      /\ n.Enum = e.Enum
                      /\ \A items \in ItemsBelow(n) : ~Annotated(items)
                      /\ Innermost(n).Properties = e.Properties

\* a slice of slices of strings with a description, a format and an enum
C26_Witness ==
    /\ Succeeded
    /\ \E name \in DOMAIN Root.Properties :
          LET n == Root.Properties[name] IN
          /\ n.Type = "ARRAY" /\ n.Items[1].Type = "ARRAY" /\ n.Items[1].Items[1].Type = "STRING"
          /\ n.Description # <<>> /\ n.Format = <<"d">> /\ Len(n.Enum) = 2
          /\ ~Annotated(n.Items[1]) /\ ~Annotated(n.Items[1].Items[1])

\* an array of pointers to records: the Object node carries nothing, its property does
C26_WitnessObjectItems ==
    /\ Succeeded
    /\ \E name \in DOMAIN Root.Properties :
          LET n == Root.Properties[name] IN
          /\ n.Type = "ARRAY" /\ n.Items[1].Type = "OBJECT"
          /\ n.Description # <<>>
          /\ ~Annotated(n.Items[1])
          /\ \E inner \in DOMAIN n.Items[1].Properties : Annotated(n.Items[1].Properties[inner])

-----------------------------------------------------------------------------
(* C27: the root depends on how the record is given. For a pointer to a     *)
(* record the root Object node has nullable = true, for a record value the  *)
(* root's nullable is unset, and apart from that the two trees are equal    *)
(* in every node; when one of the two calls fails the other fails with the  *)
(* same error.                                                              *)

GivenByPointer == arg.v[1].k = "ptr"

\* the result for the same record given the other way
OtherWay ==
    MarshalResponseSchema(<<IF GivenByPointer THEN TypeOf(StructOf("T", decl))
                            ELSE TypeOf(PtrTo(StructOf("T", decl)))>>, arg.vars)

C27_RootNullableForPointerInput ==
    Returned("MarshalResponseSchema") /\ Accepted =>
        LET other == OtherWay IN
        /\ ret.err = other.err
        /\ Succeeded =>
              /\ Root.Type = "OBJECT"
              /\ Root.Nullable = IF GivenByPointer THEN <<TRUE>> ELSE <<>>
              /\ other.schema[1].Nullable = IF GivenByPointer THEN <<>> ELSE <<TRUE>>
              /\ [Root EXCEPT !.Nullable = <<>>] = [other.schema[1] EXCEPT !.Nullable = <<>>]

\* a pointer to a record with two properties
C27_Witness ==
    /\ Succeeded
    /\ GivenByPointer
    /\ Root.Nullable = <<TRUE>>
    /\ Cardinality(DOMAIN Root.Properties) = 2
    /\ OtherWay.schema[1].Nullable = <<>>

\* the same record given by value
C27_WitnessValue ==
    /\ Succeeded
    /\ ~GivenByPointer
    /\ Root.Nullable = <<>>
    /\ Cardinality(DOMAIN Root.Properties) = 2
    /\ OtherWay.schema[1].Nullable = <<TRUE>>

-----------------------------------------------------------------------------
(* C28: renderDescription finds the tokens once, in the description as it   *)
(* is written, and then goes through them in their order: a token whose     *)
(* identifier has a value is replaced, in all its occurrences, in the text  *)
(* produced so far; an identifier without a value is recorded once for      *)
(* each occurrence. So when no value has a brace, no token that has a value *)
(* is left in the text; and a value that holds the text of a later token is *)
(* replaced again, which a substitution of all tokens at once does not do.  *)

RECURSIVE OneAfterAnother(_, _, _)
\* the text after the replacements for the tokens, made in their order
OneAfterAnother(tokens, text, variables) ==
    IF tokens = <<>> THEN text
    ELSE OneAfterAnother(Tail(tokens),
                         IF Head(tokens).id \in DOMAIN variables
                         THEN ReplaceAll(text, Head(tokens).text, variables[Head(tokens).id])
                         ELSE text,
                         variables)

\* old occurs in the text
Occurs(text, old) == \E i \in 1..Len(text) : HasPrefixAt(text, old, i)

C28_ReplacementsOneAfterAnother ==
    Returned("renderDescription") =>
        LET tokens == TokensOf(decl.pieces, <<>>)
            missing == MissingOf(tokens, arg.vars)
        IN /\ DescriptionTextIs(OneAfterAnother(tokens, Flatten(decl.pieces), arg.vars))
           /\ ret.err = IF missing = <<>> THEN <<>>
                        ELSE <<[e |-> "missing variables in description", names |-> missing]>>
           /\ PlainTokens(decl.pieces, arg.vars) =>
                 \A i \in 1..Len(tokens) :
                     tokens[i].id \in DOMAIN arg.vars => ~Occurs(ret.description, tokens[i].text)

\* the value of the first token is the text of the second token: it is
\* replaced again, and the result is not that of one substitution at once
C28_Witness ==
    /\ Returned("renderDescription")
    /\ Len(decl.pieces) = 2 /\ decl.aliases = <<>>
    /\ decl.pieces[1] = <<"{", "a", "}">> /\ decl.pieces[2] = <<"{", "b", "}">>
    /\ arg.vars = (Txt_a :> <<"{", "b", "}">>) @@ (Txt_b :> <<"w">>)
    /\ Substituted(decl.pieces, <<>>, arg.vars) = <<"{", "b", "}", "w">>
    /\ ret.description = <<"w", "w">>
    /\ ret.err = <<>>

\* a token that occurs twice and has no value is recorded twice; one that
\* occurs twice and has a value is replaced twice
C28_WitnessTwice ==
    /\ Returned("renderDescription")
    /\ Len(decl.pieces) = 3 /\ decl.aliases = <<>>
    /\ decl.pieces[1] = decl.pieces[3] /\ IsTokenPiece(decl.pieces[1])
    /\ IsTokenPiece(decl.pieces[2]) /\ decl.pieces[2] # decl.pieces[1]
    /\ ret.err # <<>> /\ Len(ret.err[1].names) = 1
    /\ ret.description = <<"v">> \o decl.pieces[2] \o <<"v">>

-----------------------------------------------------------------------------
(* The entries that the enum tags and the mapped values of the inputs list, *)
(* as they are meant by whoever wrote them.                                 *)

EnumTagEntries ==
    (<<>> :> <<>>)
    @@ (<<"{", "a", "}">> :> << <<"{", "a", "}">> >>)
    @@ (<<" ", "{", "a", "}", " ">> :> << <<"{", "a", "}">> >>)
    @@ (<<"p">> :> << <<"p">> >>)
    @@ (<<"p", ",", " ", "{", "a", "}">> :> << <<"p">>, <<"{", "a", "}">> >>)

\* the blank value lists one entry, the empty text; the empty value lists none
ValueEntries ==
    (<<>> :> <<>>)
    @@ (<<" ">> :> << <<>> >>)
    @@ (<<"p">> :> << <<"p">> >>)
    @@ (<<"p", ",", " ", "q", " ">> :> << <<"p">>, <<"q">> >>)
    @@ (<<"{", "a", "}">> :> << <<"{", "a", "}">> >>)

ExplicitFormat(d) == Len(d.parts) >= 3 /\ d.parts[3] # <<>>

\* the enum tag of the field lists the token {a} and nothing else
SingleToken(d) == EnumTagEntries[d.enumTag] = << <<"{", "a", "}">> >>

\* the fields of the record type that are entered under their declared name
NamedFields(decls) ==
    {i \in 1..Len(decls) : decls[i].exported /\ ~decls[i].anonymous /\ TagWritten(decls[i])}

TemplatedSucceeded == Returned("MarshalResponseSchemaTemplated") /\ ret.err = <<>>

(* C29: in the revision that renders enums, the format of the emitted node  *)
(* is the one decided from the tags as written (explicit third token, else  *)
(* "enum" when the enum tag lists an entry, else "float" for number) and is *)
(* not revised by the expansion: a field whose enum tag is the single token *)
(* {a}, with no explicit format, has format "enum" whatever the mapping     *)
(* holds; its enum is the list of the mapped value's entries, the token as  *)
(* written if a has no value, and the empty list if the value of a is the   *)
(* empty text, so that format "enum" stands next to an empty enum.          *)
C29_EnumFormatFromRawTag ==
    TemplatedSucceeded =>
        \A i \in NamedFields(decl) :
            LET d == decl[i]
                node == Root.Properties[DeclName(d)]
            IN /\ node.Format = FormatOf(d)
               /\ SingleToken(d) /\ ~ExplicitFormat(d) =>
                     /\ node.Format = T_enum
                     /\ Txt_a \notin DOMAIN arg.vars => node.Enum = << <<"{", "a", "}">> >>
                     /\ Txt_a \in DOMAIN arg.vars =>
                           /\ node.Enum = ValueEntries[arg.vars[Txt_a]]
                           /\ arg.vars[Txt_a] = <<>> => node.Enum = <<>>

\* F string `prompt:"a,string" prompt_enum:"{a}"` with a mapped to the empty text
C29_Witness ==
    /\ TemplatedSucceeded
    /\ Len(decl) = 1
    /\ decl[1].enumTag = <<"{", "a", "}">> /\ ~ExplicitFormat(decl[1])
    /\ decl[1].type = Prim("string")
    /\ arg.vars = (Txt_a :> <<>>)
    /\ Root.Properties[Txt_a].Format = T_enum
    /\ Root.Properties[Txt_a].Enum = <<>>

\* the same field on a slice, the value listing two entries: the Array node
\* has format "enum" and both entries
C29_WitnessExpanded ==
    /\ TemplatedSucceeded
    /\ \E i \in NamedFields(decl) :
          /\ decl[i].goName = "F"
          /\ decl[i].enumTag = <<" ", "{", "a", "}", " ">> /\ ~ExplicitFormat(decl[i])
          /\ decl[i].type = SliceOf(Prim("string"))
    /\ Txt_a \in DOMAIN arg.vars
    /\ Root.Properties[Txt_a].Type = "ARRAY"
    /\ Root.Properties[Txt_a].Format = T_enum
    /\ Root.Properties[Txt_a].Enum = << <<"p">>, <<"q">> >>

-----------------------------------------------------------------------------
(* Which record types a walk goes into, read off the type definitions.      *)

\* the declaration makes the walk go into the record type behind its type:
\* an exported field that is embedded, or annotated with the kind object
GoesIntoBy(d) ==
    /\ d.exported
    /\ d.anonymous \/ (TagWritten(d) /\ Len(d.parts) >= 2 /\ DeclKind(d) = T_object)
    /\ StripContainers(d.type).k = "named"

\* the record types that the walk of the record type n goes into
GoesInto(n) ==
    { StripContainers(decl[n][i].type).name : i \in {k \in 1..Len(decl[n]) : GoesIntoBy(decl[n][k])} }

RECURSIVE ReachedFrom(_)
\* the record types reached from those of S, those of S included
ReachedFrom(S) ==
    LET further == S \cup UNION { GoesInto(n) : n \in S } IN
    IF further = S THEN S ELSE ReachedFrom(further)

ReachesItself(n) == GoesInto(n) # {} /\ n \in ReachedFrom(GoesInto(n))

\* a record type that the walk of the input comes to reaches itself
SomeTypeReachesItself == \E n \in ReachedFrom({"T"}) : ReachesItself(n)

\* no field of the record types that the walk comes to fails a check
NoFieldFails ==
    \A n \in ReachedFrom({"T"}) : \A i \in 1..Len(decl[n]) : ~Mismatching(decl[n][i])

\* a record type is being walked inside its own walk
Reentered ==
    \E i, j \in 1..Len(frame) :
        /\ i < j
        /\ frame[i].currentType.k = "struct" /\ frame[i].promptType = "OBJECT"
        /\ frame[j].currentType = frame[i].currentType /\ frame[j].promptType = "OBJECT"

\* the call has returned a tree and no error, or an error and no tree
ReturnedTreeOrError == pc = "done" /\ ((ret.err = <<>>) # (ret.schema = <<>>))

C30_WitnessSelfReaching ==
    /\ op = "MarshalResponseSchema, call by call"
    /\ pc = "fatal"
    /\ decl["T"] = <<Plain("Next", PtrTo(Named("T")), Txt_b, T_object)>>
    /\ ret = NoRet

\* type T struct { Next *T `prompt:"b,string"` }: a nullable String leaf
C30_WitnessLeaf ==
    /\ op = "MarshalResponseSchema, call by call"
    /\ pc = "done" /\ ret.err = <<>>
    /\ decl["T"] = <<Plain("Next", PtrTo(Named("T")), Txt_b, T_string)>>
    /\ ret.schema[1].Properties[Txt_b].Type = "STRING"
    /\ ret.schema[1].Properties[Txt_b].Nullable = <<TRUE>>
    /\ ret.schema[1].Properties[Txt_b].Properties = <<>>

\* T reaches itself through U and back, and a field declared before fails:
\* the call returns the error of that field
C30_WitnessFailsBefore ==
    /\ op = "MarshalResponseSchema, call by call"
    /\ pc = "done" /\ ret.err # <<>>
    /\ SomeTypeReachesItself
    /\ ~NoFieldFails

====
